---------------------------- MODULE Spec2Model ----------------------------
(***************************************************************************)
(* Model of the collection engine of src/lab.py: the terminal-session      *)
(* receive loops, the per-node orchestrator _collect_for_node and the      *)
(* worker pool of main.                                                    *)
(*                                                                         *)
(* The specifications of the module:                                       *)
(*   SpecNode  one node task, stage by stage (_collect_for_node)           *)
(*   Spec      the pool of main with its node tasks and the shared logger  *)
(*   SpecRecv  one receive operation of a terminal session                 *)
(*   SpecHop   the hop from the access host to the device                  *)
(*   SpecProbe the start of main: reachability probe, node list, pool      *)
(*   SpecCollect the as_completed loop of main over the node futures       *)
(*   SpecSess  the sessions and the helpers that disable paging on them    *)
(*   SpecSave  one call of junos_xml_save_and_read                         *)
(* and, each for one call of a parsing or computing function on an input   *)
(* drawn from a bounded set:                                               *)
(*   SpecRepair, SpecLoopback, SpecStorage, SpecPlatform, SpecInterfaces,  *)
(*   SpecWorkers, SpecParsers, SpecReconcile, SpecWalk                     *)
(* The variables of the parts a specification does not use stay at their   *)
(* initial values.                                                         *)
(***************************************************************************)
EXTENDS Integers, Sequences, FiniteSets, TLC

VARIABLES
    \* ---- one node task (_collect_for_node) ----
    pc,          \* position of the task in _collect_for_node
    out,         \* the dict `out` (a function from field names)
    client,      \* local `client`: TRUE once open_tacacs_shell returned it
    conn,        \* the SSH connection to the access host: "none", "open", "closed"
    handler,     \* TRUE while the task's FileHandler is attached to `logger`
    loc,         \* locals: stg_xml, stg_txt, chosen, show_ver, re_txt
    attempted,   \* stages whose code was entered
    failed,      \* stages in which something failed (raised or swallowed)
    faults,      \* number of deviations injected so far
    clock,       \* time.monotonic(), in steps
    \* ---- the pool of main ----
    mpc,         \* position of main: "submit", "collect", "done"
    max_workers, \* max_workers handed to ThreadPoolExecutor
    tstate,      \* per future: "new","pending","open","stages","finally","returned","raised"
    tout,        \* per task: its dict `out`
    tfail,       \* per task: what failed in it ("none" when nothing did)
    handlers,    \* handlers attached to the module-level logger (by owning node)
    tlog,        \* per node handler: the kinds of record written to its file
    yielded,     \* futures already yielded by as_completed
    results_per_node, \* main's list of collected results
    \* ---- one receive operation ----
    rpc,         \* "idle", "loop", "returned"
    rop,         \* the operation: "prompt", "tag", "xml"
    rreq,        \* also_require_prompt of recv_until_tag_close
    rstream,     \* what the device has still to send
    rchan,       \* bytes waiting in the channel (recv_ready() iff non-empty)
    rbuf,        \* local `buf`
    rgot,        \* every chunk received by this call, decoded, in order
    rret,        \* the returned value
    rnow,        \* time.monotonic(), in poll intervals
    rend,        \* local `end`
    \* ---- the hop to the device (connect_to_node) ----
    hpc,         \* position in connect_to_node
    hdev,        \* what the far end does in this run
    hcur,        \* the marks present in the text received so far (`out`, `cur`)
    hsent,       \* the lines sent on the session, in order
    herrors,     \* out['errors'] of the node
    hnow,        \* time.monotonic(), in seconds
    hfeed,       \* local `end` of _feed_yes_no_if_needed
    \* ---- one call of a parsing or computing function ----
    cpc,         \* "call" before the call, "returned" after it
    carg,        \* the argument
    cret,        \* the returned value
    \* ---- the start of main: reachability probe and what follows it ----
    ppc,         \* position of main
    phosts,      \* number of tacacs-server entries of the access file
    pidx,        \* loop variable i (counted from 1)
    ptried,      \* local `tried`
    pattempts,   \* per access host: client.connect calls made
    pslept,      \* per access host: seconds slept between its attempts
    pchosen,     \* tacacs_chosen (0 for None)
    pnodes,      \* len(nodes) once the node list is read
    \* ---- main's loop over as_completed(futures) ----
    kpc,         \* position of main: "submit", "scan", "wait", "yield", "done"
    kworkers,    \* max_workers of the pool
    kstate,      \* per future: "new", "pending", "running", "returned", "raised"
    kdone,       \* the futures in the order in which they completed
    kwaiter,     \* waiter.finished_futures of as_completed
    kbatch,      \* local `finished` of as_completed: futures still to yield
    kfirst,      \* the futures that were complete when as_completed began
    kresults,    \* results_per_node (by node)
    \* ---- the terminal sessions of concurrent node tasks ----
    spc,         \* per session: "none", "idle", "ensure" (inside ensure_no_paging), "closed"
    sret,        \* per session: the helper that called ensure_no_paging
    spaging,     \* _paging_disabled: the class attribute, and the sessions with an attribute of their own
    sset,        \* the sessions on which ensure_no_paging has set the flag
    ssent,       \* per session: times 'set cli screen-length 0' was sent
    scalls,      \* per session: helper calls begun
    \* ---- one call of junos_xml_save_and_read ----
    vpc,         \* position: "start", "show", "read1", "probe", "read2", "exit", "returned"
    vfile,       \* the file at tmp_path on the device: "absent", "stale", "fresh"
    vsent,       \* the lines the device has received, in order
    vstream,     \* the chunks the device has still to send
    vbuf,        \* out_show / buf: bytes received, and the markers seen in them
    vsz,         \* local `sz` (0 when there is none)
    vleft,       \* polls left before `end`
    vhow,        \* how the last read loop ended: "marker", "size", "timeout"
    vret         \* the returned text

nodeVars == <<pc, out, client, conn, handler, loc, attempted, failed, faults, clock>>
poolVars == <<mpc, max_workers, tstate, tout, tfail, handlers, tlog, yielded, results_per_node>>
recvVars == <<rpc, rop, rreq, rstream, rchan, rbuf, rgot, rret, rnow, rend>>
hopVars == <<hpc, hdev, hcur, hsent, herrors, hnow, hfeed>>
callVars == <<cpc, carg, cret>>
probeVars == <<ppc, phosts, pidx, ptried, pattempts, pslept, pchosen, pnodes>>
collectVars == <<kpc, kworkers, kstate, kdone, kwaiter, kbatch, kfirst, kresults>>
sessVars == <<spc, sret, spaging, sset, ssent, scalls>>
saveVars == <<vpc, vfile, vsent, vstream, vbuf, vsz, vleft, vhow, vret>>
moreVars == <<collectVars, sessVars, saveVars>>
extVars == <<hopVars, callVars, probeVars, moreVars>>
vars == <<nodeVars, poolVars, recvVars, extVars>>

-----------------------------------------------------------------------------
(* Bounds *)

\* deviations (a raising stage, a swallowed exchange failure, a reply without
\* a value) injected into one run of a node task
MaxFaults == 2
\* node identifiers submitted to the pool
NumNodes == 3
\* largest worker cap tried
WorkerCap == 2
\* longest timeout of a receive, in poll intervals
MaxTimeout == 2

Nodes == 1..NumNodes

\* Python's None for a value that is otherwise a number: None is <<>> and the
\* number v is <<v>>
None == <<>>
Some(v) == <<v>>
\* `x or 0`
OrZero(x) == IF x = None THEN 0 ELSE x[1]

-----------------------------------------------------------------------------
(* The result dict of _collect_for_node *)

DefaultSystemInfo ==
    [ platform |-> "mx960", current_sw |-> "JUNOS", loopback_address |-> "-",
      memory_util |-> 3, cpu_usage |-> 5,
      total_space |-> 54272, used_space |-> 6144, free_space |-> 48128,
      disk_util |-> 3, temperature |-> 49,
      memory_recommendation |-> "NORMAL - Optimal Performance",
      cpu_recommendation |-> "NORMAL - Optimal Performance",
      disk_recommendation |-> "NORMAL - Adequate Free Space" ]

NewOut(node) ==
    [ node |-> node, hardware_items |-> <<>>, interfaces_rows |-> <<>>,
      alarms |-> <<>>, loopback |-> "-", system_info |-> DefaultSystemInfo,
      fpc_model_map |-> <<>>, optics_map |-> <<>>, errors |-> <<>> ]

ResultFields ==
    { "node", "hardware_items", "interfaces_rows", "alarms", "loopback",
      "system_info", "fpc_model_map", "optics_map", "errors", "elapsed" }

\* out['errors'].append(f'<label>: {e}')
AppendError(o, label) == [o EXCEPT !.errors = Append(@, label)]

\* a return that leaves elapsed unset
WithElapsed_NoElapsed(o, e) == o
\* out['elapsed'] = time.monotonic() - t0
WithElapsed(o, e) == o @@ ("elapsed" :> e)

-----------------------------------------------------------------------------
(* Command helpers and parsers, on classes of reply text.                  *)
(* A reply is "reply" (the values looked for are in it), "noise" (a reply  *)
(* without them), "huge" (a storage line with a number of more than 308    *)
(* digits) or "" (nothing).                                                *)

\* junos_run_text: the exchange, with `except Exception: ... return ''`
JunosRunText(o) ==
    CASE o = "swallowed" -> ""
      [] o = "novalue"   -> "noise"
      [] o = "huge"      -> "huge"
      [] OTHER           -> "reply"

\* junos_xml: the exchange, with `except Exception: ... return ''`
JunosXml(o) ==
    CASE o = "swallowed" -> ""
      [] o = "novalue"   -> "noise"
      [] OTHER           -> "reply"

\* _parse_temperature_from_re, _parse_cpu_used_from_re,
\* _parse_mem_util_from_re_or_sysmem: a value or None
ParseTemperatureFromRe(txt) == IF txt = "reply" THEN Some(55) ELSE None
ParseCpuUsedFromRe(txt) == IF txt = "reply" THEN Some(20) ELSE None
ParseMemUtil(re_txt, mem_txt) ==
    IF re_txt = "reply" THEN Some(30)
    ELSE IF mem_txt = "reply" THEN Some(40) ELSE None

\* _parse_storage_xml: None, or the figures of the picked filesystem
ParseStorageXml(xml) ==
    IF xml = "reply"
    THEN [ isNone |-> FALSE, total_mb |-> Some(1000), used_mb |-> Some(250),
           free_mb |-> Some(750), util_percent |-> Some(25) ]
    ELSE [ isNone |-> TRUE, total_mb |-> None, used_mb |-> None,
           free_mb |-> None, util_percent |-> None ]

\* _parse_storage_text: int(round(float)) of a number of more than 308 digits
\* raises OverflowError; the function has no try
ParseStorageTextRaises(txt) == txt = "huge"

\* _parse_storage_text: always a dict, its figures None when no line was picked
ParseStorageText(txt) ==
    IF txt = "reply"
    THEN [ isNone |-> FALSE, total_mb |-> Some(2000), used_mb |-> Some(1000),
           free_mb |-> Some(1000), util_percent |-> Some(50) ]
    ELSE [ isNone |-> FALSE, total_mb |-> None, used_mb |-> None,
           free_mb |-> None, util_percent |-> None ]

\* chosen = st_xml if st_xml and all(... is not None ...) else st_txt
ChooseStorage(st_xml, st_txt) ==
    IF /\ ~st_xml.isNone
       /\ st_xml.total_mb # None /\ st_xml.used_mb # None
       /\ st_xml.free_mb # None /\ st_xml.util_percent # None
    THEN st_xml ELSE st_txt

Max(a, b) == IF a >= b THEN a ELSE b

\* the four assignments of the storage stage
AssignStorage(si, chosen) ==
    [ si EXCEPT
        !.total_space = OrZero(chosen.total_mb),
        !.used_space  = OrZero(chosen.used_mb),
        !.free_space  = OrZero(chosen.free_mb),
        !.disk_util   = IF OrZero(chosen.util_percent) # 0
                        THEN OrZero(chosen.util_percent)
                        ELSE (OrZero(chosen.used_mb) * 100)
                               \div Max(IF OrZero(chosen.total_mb) = 0 THEN 1
                                        ELSE OrZero(chosen.total_mb), 1) ]

NoStorage ==
    [ isNone |-> TRUE, total_mb |-> None, used_mb |-> None,
      free_mb |-> None, util_percent |-> None ]

InitLoc ==
    [ re_txt |-> "", stg_xml |-> "", stg_txt |-> "", chosen |-> NoStorage,
      show_ver |-> "", t0 |-> 0 ]

-----------------------------------------------------------------------------
(* One node task: _collect_for_node, one action per stage.                 *)
(* An outcome "ok" is the stage going as intended; every other outcome is  *)
(* a deviation, of which a run takes at most MaxFaults:                    *)
(*   "raise"      an exception reaches the stage's own except clause       *)
(*   "swallowed"  the exchange fails inside junos_xml or junos_run_text,   *)
(*                which returns ''                                         *)
(*   "novalue"    the reply holds no value the stage can use               *)
(*   "huge"       the storage text holds a number too long for a float      *)
(* A stage's own except clause is reached from what the stage body does    *)
(* outside the command helpers (the hop's send, print_status).             *)

Budget(o) == o = "ok" \/ faults < MaxFaults

\* bookkeeping common to the stages: the stage was entered, and failed when
\* the outcome is a failure
Enter(stage, o) ==
    /\ Budget(o)
    /\ attempted' = attempted \cup {stage}
    /\ failed' = IF o \in {"raise", "swallowed"} THEN failed \cup {stage} ELSE failed
    /\ faults' = IF o = "ok" THEN faults ELSE faults + 1
    /\ clock' = clock + 1
    /\ UNCHANGED <<client, conn, handler, poolVars, recvVars, extVars>>

\* t0 = time.monotonic(); out = {...}
Construct ==
    /\ pc = "start"
    /\ out' = NewOut(1)
    /\ loc' = [loc EXCEPT !.t0 = clock]
    /\ clock' = clock + 1
    /\ pc' = "setup"
    /\ UNCHANGED <<client, conn, handler, attempted, failed, faults, poolVars, recvVars, extVars>>

\* the per-node FileHandler, before the try: opening the log file may raise
\* (a node identifier that is no file name), and the exception leaves the function
Setup ==
    /\ pc = "setup"
    /\ \E o \in {"ok", "raise"} :
         /\ Budget(o)
         /\ faults' = IF o = "ok" THEN faults ELSE faults + 1
         /\ handler' = (o = "ok")
         /\ pc' = IF o = "ok" THEN "open" ELSE "raised"
    /\ clock' = clock + 1
    /\ UNCHANGED <<out, client, conn, loc, attempted, failed, poolVars, recvVars, extVars>>

\* the connection after open_tacacs_shell: client.connect raising leaves none,
\* invoke_shell raising leaves the connection made by client.connect
ConnAfterOpen(o) == IF o = "connect_fails" THEN "none" ELSE "open"

\* client, sess = open_tacacs_shell(...): `client` is bound only when the
\* call returns; any exception goes to the outer except
OpenShell ==
    /\ pc = "open"
    /\ \E o \in {"ok", "connect_fails", "shell_fails"} :
         /\ Budget(o)
         /\ faults' = IF o = "ok" THEN faults ELSE faults + 1
         /\ conn' = ConnAfterOpen(o)
         /\ client' = (o = "ok")
         /\ out' = IF o = "ok" THEN out ELSE AppendError(out, "open_tacacs_shell")
         /\ failed' = IF o = "ok" THEN failed ELSE failed \cup {"open"}
         /\ pc' = IF o = "ok" THEN "hop" ELSE "finally"
    /\ attempted' = attempted \cup {"open"}
    /\ clock' = clock + 1
    /\ UNCHANGED <<handler, loc, poolVars, recvVars, extVars>>

\* connect_to_node in its own try
StageHop ==
    /\ pc = "hop"
    /\ \E o \in {"ok", "raise"} :
         /\ Enter("hop", o)
         /\ out' = IF o = "raise" THEN AppendError(out, "connect_to_node") ELSE out
    /\ pc' = "re"
    /\ UNCHANGED loc

\* first half of the re/cpu/mem try: show chassis routing-engine, temperature
StageRoutingEngine ==
    /\ pc = "re"
    /\ \E o \in {"ok", "novalue", "swallowed"} :
         /\ Enter("re", o)
         /\ LET txt == JunosRunText(o)
                t   == ParseTemperatureFromRe(txt)
            IN /\ loc' = [loc EXCEPT !.re_txt = txt]
               /\ out' = IF t # None
                         THEN [out EXCEPT !.system_info.temperature = t[1]]
                         ELSE out
    /\ pc' = "mem"

\* second half of the re/cpu/mem try: show system memory, cpu and memory
StageMemory ==
    /\ pc = "mem"
    /\ \E o \in {"ok", "novalue", "swallowed", "raise"} :
         /\ Enter("mem", o)
         /\ LET txt == JunosRunText(o)
                c   == ParseCpuUsedFromRe(loc.re_txt)
                m   == ParseMemUtil(loc.re_txt, txt)
                o1  == IF c # None THEN [out EXCEPT !.system_info.cpu_usage = c[1]] ELSE out
                o2  == IF m # None THEN [o1 EXCEPT !.system_info.memory_util = m[1]] ELSE o1
            IN out' = IF o = "raise" THEN AppendError(o2, "re/cpu/mem") ELSE o2
    /\ pc' = "stgxml"
    /\ UNCHANGED loc

\* stg_xml = junos_xml(...), `except Exception: stg_xml = ''`
StageStorageXml ==
    /\ pc = "stgxml"
    /\ \E o \in {"ok", "novalue", "swallowed"} :
         /\ Enter("stgxml", o)
         /\ loc' = [loc EXCEPT !.stg_xml = JunosXml(o)]
    /\ pc' = "stgtxt"
    /\ UNCHANGED out

\* stg_txt = junos_run_text(...), `except Exception: stg_txt = ''`
StageStorageText ==
    /\ pc = "stgtxt"
    /\ \E o \in {"ok", "novalue", "swallowed", "huge"} :
         /\ Enter("stgtxt", o)
         /\ loc' = [loc EXCEPT !.stg_txt = JunosRunText(o)]
    /\ pc' = "stgparse"
    /\ UNCHANGED out

\* st_xml = _parse_storage_xml(..); st_txt = _parse_storage_text(..); chosen = ..
\* These lines are in no try of their own: an exception of _parse_storage_text
\* goes to the outer except, which ends the stage sequence.
StageStorageParse ==
    /\ pc = "stgparse"
    /\ attempted' = attempted \cup {"stgparse"}
    /\ clock' = clock + 1
    /\ IF ParseStorageTextRaises(loc.stg_txt)
       THEN /\ out' = AppendError(out, "open_tacacs_shell")
            /\ failed' = failed \cup {"stgparse"}
            /\ pc' = "finally"
            /\ UNCHANGED loc
       ELSE /\ loc' = [loc EXCEPT !.chosen =
                          ChooseStorage(ParseStorageXml(loc.stg_xml),
                                        ParseStorageText(loc.stg_txt))]
            /\ pc' = "stgassign"
            /\ UNCHANGED <<out, failed>>
    /\ UNCHANGED <<client, conn, handler, faults, poolVars, recvVars, extVars>>

\* the four assignments to system_info, in their own try
StageStorageAssign ==
    /\ pc = "stgassign"
    /\ \E o \in {"ok", "raise"} :
         /\ Enter("stgassign", o)
         /\ LET o1 == [out EXCEPT !.system_info = AssignStorage(@, loc.chosen)]
            IN out' = IF o = "raise" THEN AppendError(o1, "storage-parse") ELSE o1
    /\ pc' = "chassis"
    /\ UNCHANGED loc

\* parse_hardware_inventory, parse_chassis_alarms, parse_interfaces_xml_basic:
\* the records of a reply, the empty list of anything else
ParseHardwareInventory(xml) ==
    IF xml = "reply"
    THEN << [component_type |-> "FPC", slot |-> "FPC 0", model |-> "MPC7E"] >>
    ELSE << >>
ParseChassisAlarms(xml) == IF xml = "reply" THEN << "alarm" >> ELSE << >>
ParseInterfaces(xml) == IF xml = "reply" THEN << "et-0/0/0" >> ELSE << >>
\* the optics loop of the orchestrator: (interface, module description) pairs
ParseOptics(xml) == IF xml = "reply" THEN { <<"et-0/0/0", "QSFP-100G">> } ELSE {}

\* build_fpc_model_map: (slot, model) pairs of the FPC items
SlotNumber(slot_str) == IF slot_str = "FPC 0" THEN 0 ELSE 1
BuildFpcModelMap(items) ==
    { <<SlotNumber(items[i].slot), items[i].model>> :
        i \in { j \in DOMAIN items : items[j].component_type = "FPC" } }

\* _detect_platform_and_sw: hardware tag, else Model: token, else the node
\* identifier (that of the model carries no platform token), else Unknown
DetectPlatform(items, show_ver) ==
    IF items # << >> THEN "MX960"
    ELSE IF show_ver = "reply" THEN "MX480" ELSE "Unknown"
ExtractRawVersion(show_ver) == IF show_ver = "reply" THEN "21.4R3-S1.6" ELSE ""

\* a stage of the form: x = junos_xml(..); out[field] = parse(x), in its own try
StageChassis ==
    /\ pc = "chassis"
    /\ \E o \in {"ok", "novalue", "swallowed", "raise"} :
         /\ Enter("chassis", o)
         /\ LET o1 == [out EXCEPT !.hardware_items = ParseHardwareInventory(JunosXml(o))]
            IN out' = IF o = "raise" THEN AppendError(o1, "chassis") ELSE o1
    /\ pc' = "optics"
    /\ UNCHANGED loc

StageOptics ==
    /\ pc = "optics"
    /\ \E o \in {"ok", "novalue", "swallowed", "raise"} :
         /\ Enter("optics", o)
         /\ LET o1 == [out EXCEPT !.optics_map = ParseOptics(JunosXml(o))]
            IN out' = IF o = "raise" THEN AppendError(o1, "optics") ELSE o1
    /\ pc' = "alarms"
    /\ UNCHANGED loc

StageAlarms ==
    /\ pc = "alarms"
    /\ \E o \in {"ok", "novalue", "swallowed", "raise"} :
         /\ Enter("alarms", o)
         /\ LET o1 == [out EXCEPT !.alarms = ParseChassisAlarms(JunosXml(o))]
            IN out' = IF o = "raise" THEN AppendError(o1, "alarms") ELSE o1
    /\ pc' = "ifaces"
    /\ UNCHANGED loc

StageInterfaces ==
    /\ pc = "ifaces"
    /\ \E o \in {"ok", "novalue", "swallowed", "raise"} :
         /\ Enter("ifaces", o)
         /\ LET o1 == [out EXCEPT !.interfaces_rows = ParseInterfaces(JunosXml(o))]
            IN out' = IF o = "raise" THEN AppendError(o1, "interfaces") ELSE o1
    /\ pc' = "ver"
    /\ UNCHANGED loc

\* show_ver = junos_run_text(..), `except Exception: show_ver = ''`
StageVersion ==
    /\ pc = "ver"
    /\ \E o \in {"ok", "novalue", "swallowed"} :
         /\ Enter("ver", o)
         /\ loc' = [loc EXCEPT !.show_ver = JunosRunText(o)]
    /\ pc' = "platform"
    /\ UNCHANGED out

\* a hardware list that is always the default of the lookup
HardwareSeenByPlatform_Default(o) == << >>
\* out.get('hardware_items', []): the list of this task's own dict
HardwareSeenByPlatform(o) == o.hardware_items

\* _detect_platform_and_sw on the hardware list of this node, in its own try
StagePlatform ==
    /\ pc = "platform"
    /\ \E o \in {"ok", "raise"} :
         /\ Enter("platform", o)
         /\ LET si == [ platform |-> DetectPlatform(HardwareSeenByPlatform(out), loc.show_ver),
                        current_sw |-> ExtractRawVersion(loc.show_ver),
                        current_sw_type |-> "JUNOS",
                        show_version_text |-> loc.show_ver ] @@ out.system_info
                o1 == [out EXCEPT !.system_info = si]
            IN out' = IF o = "raise" THEN AppendError(o1, "platform/sw detect") ELSE o1
    /\ pc' = "loopback"
    /\ UNCHANGED loc

\* loopback from the XML reply, else from the terse text, in its own try
StageLoopback ==
    /\ pc = "loopback"
    /\ \E o \in {"ok", "novalue", "swallowed", "raise"} :
         /\ Enter("loopback", o)
         /\ LET lo == CASE o = "ok" -> "10.0.0.1"
                        [] o = "swallowed" -> "10.0.0.2"
                        [] OTHER -> "-"
                o1 == [out EXCEPT !.loopback = lo]
            IN out' = IF o = "raise" THEN AppendError(out, "loopback") ELSE o1
    /\ pc' = "fpcmap"
    /\ UNCHANGED loc

\* out['fpc_model_map'] = build_fpc_model_map(out['hardware_items'])
StageFpcMap ==
    /\ pc = "fpcmap"
    /\ \E o \in {"ok", "raise"} :
         /\ Enter("fpcmap", o)
         /\ out' = IF o = "raise" THEN AppendError(out, "fpc_map")
                   ELSE [out EXCEPT !.fpc_model_map = BuildFpcModelMap(out.hardware_items)]
    /\ pc' = "finally"
    /\ UNCHANGED loc

\* finally: `if client: client.close()`, then the handler is removed
ConnAfterFinally(cl, c) == IF cl THEN "closed" ELSE c

Finally ==
    /\ pc = "finally"
    /\ conn' = ConnAfterFinally(client, conn)
    /\ handler' = FALSE
    /\ clock' = clock + 1
    /\ pc' = "ret"
    /\ UNCHANGED <<out, client, loc, attempted, failed, faults, poolVars, recvVars, extVars>>

\* out['elapsed'] = time.monotonic() - t0; return out
Return ==
    /\ pc = "ret"
    /\ out' = WithElapsed(out, clock - loc.t0)
    /\ pc' = "done"
    /\ UNCHANGED <<client, conn, handler, loc, attempted, failed, faults, clock,
                   poolVars, recvVars, extVars>>

NextNode ==
    \/ Construct \/ Setup \/ OpenShell
    \/ StageHop \/ StageRoutingEngine \/ StageMemory
    \/ StageStorageXml \/ StageStorageText \/ StageStorageParse \/ StageStorageAssign
    \/ StageChassis \/ StageOptics \/ StageAlarms \/ StageInterfaces
    \/ StageVersion \/ StagePlatform \/ StageLoopback \/ StageFpcMap
    \/ Finally \/ Return

-----------------------------------------------------------------------------
(* The pool of main: ThreadPoolExecutor(max_workers), one future per node, *)
(* results collected with as_completed.  A node task is taken here in four *)
(* steps (start, session open, the stages, finally and return); the        *)
(* stages are followed one by one in SpecNode.                             *)

\* the node tasks in flight: taken by a worker and not yet over
Running == { n \in Nodes : tstate[n] \in {"open", "stages", "finally"} }

\* an executor that starts a thread for every queued future
WorkerAvailable_Unbounded == TRUE
\* a worker thread of the executor is free to take the next queued future
WorkerAvailable == Cardinality(Running) < max_workers

\* logger.debug/info/warning/error on the module-level logger: the record
\* goes to every handler attached at that moment.  A handler's file is kept
\* as the kinds of record in it: "own" (logged by the task that attached the
\* handler) and "other" (logged by the task of another node).
Emit(src, hs, lg) ==
    [h \in Nodes |-> IF h \in hs
                     THEN lg[h] \cup {IF src = h THEN "own" ELSE "other"}
                     ELSE lg[h]]

\* ex.submit(_collect_for_node, node, ...) for the nodes in list order
Submit(n) ==
    /\ mpc = "submit"
    /\ tstate[n] = "new"
    /\ \A m \in Nodes : m < n => tstate[m] # "new"
    /\ tstate' = [tstate EXCEPT ![n] = "pending"]
    /\ mpc' = IF n = NumNodes THEN "collect" ELSE "submit"
    /\ UNCHANGED <<max_workers, tout, tfail, handlers, tlog, yielded, results_per_node,
                   nodeVars, recvVars, extVars>>

\* A worker takes the oldest queued future and enters _collect_for_node: the
\* dict `out`, then FileHandler(node_log), logger.addHandler(fh) and
\* print_status('Start collect').  A FileHandler that cannot open its file
\* raises out of the function: the future holds the exception.
TaskStart(n) ==
    /\ tstate[n] = "pending"
    /\ \A m \in Nodes : m < n => tstate[m] # "pending"
    /\ WorkerAvailable
    /\ \E o \in {"ok", "raise"} :
         IF o = "ok"
         THEN /\ handlers' = handlers \cup {n}
              /\ tlog' = Emit(n, handlers \cup {n}, tlog)
              /\ tstate' = [tstate EXCEPT ![n] = "open"]
              /\ tout' = [tout EXCEPT ![n] = NewOut(n)]
              /\ UNCHANGED tfail
         ELSE /\ tstate' = [tstate EXCEPT ![n] = "raised"]
              /\ tfail' = [tfail EXCEPT ![n] = "raise"]
              /\ UNCHANGED <<handlers, tlog, tout>>
    /\ UNCHANGED <<mpc, max_workers, yielded, results_per_node, nodeVars, recvVars, extVars>>

\* open_tacacs_shell; on failure the outer except records it and logs an ERROR
TaskOpen(n) ==
    /\ tstate[n] = "open"
    /\ \E o \in {"ok", "fail"} :
         IF o = "ok"
         THEN /\ tstate' = [tstate EXCEPT ![n] = "stages"]
              /\ UNCHANGED <<tout, tfail, tlog>>
         ELSE /\ tstate' = [tstate EXCEPT ![n] = "finally"]
              /\ tout' = [tout EXCEPT ![n] = AppendError(@, "open_tacacs_shell")]
              /\ tfail' = [tfail EXCEPT ![n] = "open"]
              /\ tlog' = Emit(n, handlers, tlog)
    /\ UNCHANGED <<mpc, max_workers, handlers, yielded, results_per_node, nodeVars, recvVars, extVars>>

\* the stage sequence: nothing fails, the hop raises (recorded), or an
\* exchange fails inside junos_xml / junos_run_text (swallowed there)
TaskStages(n) ==
    /\ tstate[n] = "stages"
    /\ \E f \in {"none", "hop", "swallowed"} :
         /\ tout' = [tout EXCEPT ![n] =
                        IF f = "hop" THEN AppendError(@, "connect_to_node") ELSE @]
         /\ tfail' = [tfail EXCEPT ![n] = f]
    /\ tlog' = Emit(n, handlers, tlog)
    /\ tstate' = [tstate EXCEPT ![n] = "finally"]
    /\ UNCHANGED <<mpc, max_workers, handlers, yielded, results_per_node, nodeVars, recvVars, extVars>>

\* finally: logger.removeHandler(fh); then elapsed, print_status('Finish
\* collect') and return: the future holds the result
TaskFinally(n) ==
    /\ tstate[n] = "finally"
    /\ handlers' = handlers \ {n}
    /\ tlog' = Emit(n, handlers \ {n}, tlog)
    /\ tout' = [tout EXCEPT ![n] = WithElapsed(@, IF tfail[n] = "open" THEN 2 ELSE 3)]
    /\ tstate' = [tstate EXCEPT ![n] = "returned"]
    /\ UNCHANGED <<mpc, max_workers, tfail, yielded, results_per_node, nodeVars, recvVars, extVars>>

\* what main does with a future yielded by as_completed: append fut.result(),
\* or, when fut.result() raises, only report 'Thread failed'
Collected(res, st, o) == IF st = "returned" THEN Append(res, o) ELSE res

\* for fut in as_completed(futures): any finished future not yet yielded
Collect(n) ==
    /\ mpc = "collect"
    /\ tstate[n] \in {"returned", "raised"}
    /\ n \notin yielded
    /\ yielded' = yielded \cup {n}
    /\ results_per_node' = Collected(results_per_node, tstate[n], tout[n])
    /\ mpc' = IF yielded \cup {n} = Nodes THEN "done" ELSE "collect"
    /\ UNCHANGED <<max_workers, tstate, tout, tfail, handlers, tlog, nodeVars, recvVars, extVars>>

NextPool ==
    \/ \E n \in Nodes : Submit(n)
    \/ \E n \in Nodes : TaskStart(n)
    \/ \E n \in Nodes : TaskOpen(n)
    \/ \E n \in Nodes : TaskStages(n)
    \/ \E n \in Nodes : TaskFinally(n)
    \/ \E n \in Nodes : Collect(n)
   

-----------------------------------------------------------------------------
(* The receive operations of a terminal session: recv_until_prompt,        *)
(* recv_until_tag_close and recv_until_xml_or_prompt.                      *)
(* Text is a sequence of characters: "x" (any other character), ">", "}",  *)
(* "%", "NL" (newline), "SP" (blank), "T" (the text </rpc-reply>, which    *)
(* ends in '>') and "B" (a byte that is not valid UTF-8).  Time is counted *)
(* in poll intervals (time.sleep(0.05)).                                   *)

\* what the device sends in a run
Scripts ==
    { << "x", ">", "SP" >>,                      \* a device prompt: user@host>
      << "x", "T", "NL", "x", ">", "SP" >>,      \* an XML reply, then the prompt
      << ">", "NL", "}", "NL", "%" >>,           \* three lines: '>', '}', '%'
      << "x", "B", "x" >> }                      \* output without any prompt

\* bytes.decode('utf-8', errors='ignore')
Decode(chunk) == SelectSeq(chunk, LAMBDA c : c # "B")

IsSpace(c) == c \in {"NL", "SP"}
AllSpace(b, i, j) == \A k \in i..j : IsSpace(b[k])
EndsGt(c) == c \in {">", "T"}
\* `$` under re.MULTILINE before position j: the end of the text or a newline
AtEol(b, j) == j = Len(b) + 1 \/ (j <= Len(b) /\ b[j] = "NL")

\* re.search(r'(>\s*$\n}\s*$\n%\s*$)', buf, re.MULTILINE): in the raw string
\* \n is a newline to match, so the pattern is one sequence: '>', blanks,
\* newline, '}', blanks, newline, '%', blanks, end of line
PromptRegexMatches(b) ==
    \E i \in 1..Len(b) :
      /\ EndsGt(b[i])
      /\ \E j1 \in (i + 1)..Len(b) :
           /\ AllSpace(b, i + 1, j1 - 1) /\ b[j1] = "NL"
           /\ j1 + 1 <= Len(b) /\ b[j1 + 1] = "}"
           /\ \E j2 \in (j1 + 2)..Len(b) :
                /\ AllSpace(b, j1 + 2, j2 - 1) /\ b[j2] = "NL"
                /\ j2 + 1 <= Len(b) /\ b[j2 + 1] = "%"
                /\ \E j3 \in (j2 + 2)..(Len(b) + 1) :
                     AllSpace(b, j2 + 2, j3 - 1) /\ AtEol(b, j3)

\* close_tag in buf, '</rpc-reply>' in buf
HasCloseTag(b) == \E i \in 1..Len(b) : b[i] = "T"

\* the condition under which the loop of the operation breaks
BreakCond(op, req, b) ==
    CASE op = "prompt" -> PromptRegexMatches(b)
      [] op = "tag"    -> HasCloseTag(b) /\ (~req \/ PromptRegexMatches(b))
      [] OTHER         -> HasCloseTag(b) \/ PromptRegexMatches(b)

\* a loop that never looks at the clock
TimeLeft_Forever(now, end) == TRUE
\* while time.monotonic() < end
TimeLeft(now, end) == now < end

\* buf += chunk
Accumulate(b, chunk) == b \o chunk

\* buf = ''; end = time.monotonic() + timeout
RecvCall ==
    /\ rpc = "idle"
    /\ \E op \in {"prompt", "tag", "xml"}, req \in BOOLEAN, timeout \in 1..MaxTimeout :
         /\ req => op = "tag"
         /\ rop' = op /\ rreq' = req
         /\ rend' = rnow + timeout
    /\ rbuf' = << >>
    /\ rpc' = "loop"
    /\ UNCHANGED <<rstream, rchan, rgot, rret, rnow, nodeVars, poolVars, extVars>>

\* the device sends some more of its output
DeviceSend ==
    /\ rpc \in {"idle", "loop"}
    /\ rstream # << >>
    /\ \E k \in 1..Len(rstream) :
         /\ rchan' = rchan \o SubSeq(rstream, 1, k)
         /\ rstream' = SubSeq(rstream, k + 1, Len(rstream))
    /\ UNCHANGED <<rpc, rop, rreq, rbuf, rgot, rret, rnow, rend, nodeVars, poolVars, extVars>>

\* recv_ready(): chunk = recv(..).decode(..); buf += chunk; break on a match
LoopRecv ==
    /\ rpc = "loop"
    /\ TimeLeft(rnow, rend)
    /\ rchan # << >>
    /\ LET chunk == Decode(rchan)
           b     == Accumulate(rbuf, chunk)
       IN /\ rbuf' = b
          /\ rgot' = rgot \o chunk
          /\ IF BreakCond(rop, rreq, b)
             THEN rpc' = "returned" /\ rret' = b
             ELSE UNCHANGED <<rpc, rret>>
    /\ rchan' = << >>
    /\ UNCHANGED <<rop, rreq, rstream, rnow, rend, nodeVars, poolVars, extVars>>

\* else: time.sleep(0.05)
LoopSleep ==
    /\ rpc = "loop"
    /\ TimeLeft(rnow, rend)
    /\ rchan = << >>
    /\ rnow <= MaxTimeout
    /\ rnow' = rnow + 1
    /\ UNCHANGED <<rpc, rop, rreq, rstream, rchan, rbuf, rgot, rret, rend, nodeVars, poolVars, extVars>>

\* the while condition is false: return buf
LoopExit ==
    /\ rpc = "loop"
    /\ ~TimeLeft(rnow, rend)
    /\ rret' = rbuf
    /\ rpc' = "returned"
    /\ UNCHANGED <<rop, rreq, rstream, rchan, rbuf, rgot, rnow, rend, nodeVars, poolVars, extVars>>

NextRecv == RecvCall \/ DeviceSend \/ LoopRecv \/ LoopSleep \/ LoopExit

-----------------------------------------------------------------------------
(* The hop from the access host to the device: connect_to_node with       *)
(* _feed_yes_no_if_needed, called in its own try by _collect_for_node.    *)
(* The text received is kept as the set of marks it contains:             *)
(*   "hostkey"  'are you sure you want to continue connecting'            *)
(*   "password" 'password:'                                               *)
(*   "login"    the login prompt of the device                            *)
(*   "denied"   the device refused the password                           *)
(*   "refused"  no connection to the device at all                        *)
(* Time is in seconds.  With the default pattern a recv_until_prompt lasts *)
(* its whole timeout and returns what arrived in it.                      *)

\* the timeouts of connect_to_node and _feed_yes_no_if_needed
HopFirstWait == 10
HopFeedWait == 5
HopYesWait == 3
HopPollWait == 1
HopPasswordWait == 10

\* latest moment at which the far end starts to answer the hop command
MaxDelay == 20
\* at once, during the question loop, as its last poll ends, after the hop
Delays == {0, 12, HopFirstWait + HopFeedWait, MaxDelay}

\* the far ends: reachable or not, asking for a host-key confirmation or
\* not, asking for a password or not, accepting it or not, answering after
\* `delay` seconds
Devices ==
    [ reach : BOOLEAN, hostkey : BOOLEAN, password : BOOLEAN,
      accept : BOOLEAN, delay : Delays ]

\* what the far end shows once its previous question is answered
AfterHostKey(d) == IF d.password THEN "password" ELSE "login"
FirstShown(d) ==
    IF ~d.reach THEN "refused"
    ELSE IF d.hostkey THEN "hostkey" ELSE AfterHostKey(d)
AfterPassword(d) == IF d.accept THEN "login" ELSE "denied"

\* the marks that have arrived at time `now`, given what was sent so far
Arrived(d, sent, now) ==
    LET first == IF now >= d.delay THEN {FirstShown(d)} ELSE {}
        yes   == IF "hostkey" \in first /\ (\E i \in DOMAIN sent : sent[i] = "yes")
                 THEN {AfterHostKey(d)} ELSE {}
        shown == first \cup yes
        pass  == IF "password" \in shown /\ (\E i \in DOMAIN sent : sent[i] = "pass")
                 THEN {AfterPassword(d)} ELSE {}
    IN shown \cup pass

\* 'are you sure you want to continue connecting' in low or ('please type' ...)
AsksYesNo(cur) == "hostkey" \in cur
\* 'password:' in out.lower()
AsksPassword(cur) == "password" \in cur

\* connect_to_node(sess, node, router_user, router_pass) is entered:
\* `if not router_user: return`
HopCall ==
    /\ hpc = "call"
    /\ \E router_user \in BOOLEAN :
         hpc' = IF router_user THEN "send" ELSE "done"
    /\ UNCHANGED <<hdev, hcur, hsent, herrors, hnow, hfeed,
                   nodeVars, poolVars, recvVars, callVars, probeVars, moreVars>>

\* sess.send("ssh ... user@node"); a send on a closed channel raises, and the
\* except clause of the caller records it
HopSend ==
    /\ hpc = "send"
    /\ \E o \in {"ok", "raise"} :
         IF o = "ok"
         THEN /\ hsent' = Append(hsent, "ssh")
              /\ hpc' = "first"
              /\ UNCHANGED herrors
         ELSE /\ herrors' = Append(herrors, "connect_to_node")
              /\ hpc' = "done"
              /\ UNCHANGED hsent
    /\ UNCHANGED <<hdev, hcur, hnow, hfeed, nodeVars, poolVars, recvVars, callVars, probeVars, moreVars>>

\* out = sess.recv_until_prompt(timeout=10); then _feed_yes_no_if_needed is
\* entered: end = time.monotonic() + timeout; cur = buf or ''
HopRecvFirst ==
    /\ hpc = "first"
    /\ hnow' = hnow + HopFirstWait
    /\ hcur' = hcur \cup Arrived(hdev, hsent, hnow + HopFirstWait)
    /\ hfeed' = hnow + HopFirstWait + HopFeedWait
    /\ hpc' = "feed"
    /\ UNCHANGED <<hdev, hsent, herrors, nodeVars, poolVars, recvVars, callVars, probeVars, moreVars>>

\* the loop finds the question: sess.send('yes');
\* cur += sess.recv_until_prompt(timeout=3); break
FeedAnswer ==
    /\ hpc = "feed"
    /\ hnow < hfeed
    /\ AsksYesNo(hcur)
    /\ hsent' = Append(hsent, "yes")
    /\ hnow' = hnow + HopYesWait
    /\ hcur' = hcur \cup Arrived(hdev, Append(hsent, "yes"), hnow + HopYesWait)
    /\ hpc' = "password"
    /\ UNCHANGED <<hdev, herrors, hfeed, nodeVars, poolVars, recvVars, callVars, probeVars, moreVars>>

\* no question yet: time.sleep(0.05); more = sess.recv_until_prompt(timeout=1)
FeedPoll ==
    /\ hpc = "feed"
    /\ hnow < hfeed
    /\ ~AsksYesNo(hcur)
    /\ hnow' = hnow + HopPollWait
    /\ hcur' = hcur \cup Arrived(hdev, hsent, hnow + HopPollWait)
    /\ UNCHANGED <<hpc, hdev, hsent, herrors, hfeed, nodeVars, poolVars, recvVars, callVars, probeVars, moreVars>>

\* the while condition is false: return cur
FeedExit ==
    /\ hpc = "feed"
    /\ ~(hnow < hfeed)
    /\ hpc' = "password"
    /\ UNCHANGED <<hdev, hcur, hsent, herrors, hnow, hfeed,
                   nodeVars, poolVars, recvVars, callVars, probeVars, moreVars>>

\* if 'password:' in out.lower(): sess.send(router_pass or '');
\* _ = sess.recv_until_prompt(timeout=10).  Then the function returns: what
\* the last receive brought is dropped, and nothing looks for a login prompt.
HopPassword ==
    /\ hpc = "password"
    /\ IF AsksPassword(hcur)
       THEN /\ hsent' = Append(hsent, "pass")
            /\ hnow' = hnow + HopPasswordWait
       ELSE UNCHANGED <<hsent, hnow>>
    /\ hpc' = "done"
    /\ UNCHANGED <<hdev, hcur, herrors, hfeed, nodeVars, poolVars, recvVars, callVars, probeVars, moreVars>>

NextHop ==
    \/ HopCall \/ HopSend \/ HopRecvFirst
    \/ FeedAnswer \/ FeedPoll \/ FeedExit \/ HopPassword

-----------------------------------------------------------------------------
(* Reply extraction and repair: _extract_xml_fragment, sanitize_xml_text   *)
(* and _repair_corrupt_xml.  A capture is a sequence of pieces of text:    *)
(*   "<R" "R>"   the opening <rpc-reply ...> and the closing </rpc-reply>  *)
(*   "<I" "I>"   <interface-information ...> and its closing tag           *)
(*   "<a" "a>"   the opening and the closing tag of any other element      *)
(*   "P"         a tag cut off before its '>'                              *)
(*   "E"         character data without '<' or '>' (CLI echo, values)      *)
(*   "K"         the three echoed lines sanitize_xml_text removes          *)
(*   "C"         a control character                                       *)
(*   "SP"        a blank (what a control character is replaced by)         *)
(* "<root" and "root>" are the wrapper tags the repair adds.  The empty    *)
(* sequence stands for '' and for None (both are `not buff`).              *)

\* longest capture, in pieces
MaxCapture == 3

Pieces == {"<R", "R>", "<I", "I>", "<a", "a>", "P", "E", "K", "C"}
Captures == UNION { [1..n -> Pieces] : n \in 0..MaxCapture }

OpenTags == {"<R", "<I", "<a", "<root"}
CloseTags == {"R>", "I>", "a>", "root>"}
TagName(p) ==
    CASE p \in {"<R", "R>"} -> "rpc-reply"
      [] p \in {"<I", "I>"} -> "interface-information"
      [] p \in {"<a", "a>"} -> "a"
      [] OTHER -> "root"

\* what expat accepts: one document element, every tag closed in order,
\* nothing but blanks outside the document element, no control character
\* and no cut-off tag.  `open` is the stack of open elements, `seen` tells
\* that the document element is closed.
RECURSIVE Scan(_, _, _, _)
Scan(x, i, open, seen) ==
    IF i > Len(x) THEN open = << >> /\ seen
    ELSE LET p == x[i] IN
         CASE p = "SP" -> Scan(x, i + 1, open, seen)
           [] p \in {"E", "K"} -> open # << >> /\ Scan(x, i + 1, open, seen)
           [] p \in OpenTags ->
                ~(open = << >> /\ seen)
                /\ Scan(x, i + 1, Append(open, TagName(p)), seen)
           [] p \in CloseTags ->
                /\ open # << >>
                /\ open[Len(open)] = TagName(p)
                /\ Scan(x, i + 1, SubSeq(open, 1, Len(open) - 1), Len(open) = 1)
           [] OTHER -> FALSE
WellFormed(x) == Scan(x, 1, << >>, FALSE)

\* the outcome of a piece of code: a value, or an exception
Ok(v) == [exc |-> FALSE, val |-> v]
Exc == [exc |-> TRUE, val |-> << >>]

\* minidom.parseString(x): a document, or an ExpatError
ParseString(x) == IF WellFormed(x) THEN Ok(x) ELSE Exc

\* `a; return v`: v is returned unless a raised
Then(a, v) == IF a.exc THEN a ELSE Ok(v)

\* a try whose except clause is missing: the exception goes on
TryExcept_Propagates(body, except) == body
\* try: body / except Exception: handler
TryExcept(body, except) == IF body.exc THEN except ELSE body

\* str.find and str.rfind (0 for -1), on pieces
Find(x, ps) ==
    IF \E i \in DOMAIN x : x[i] \in ps
    THEN CHOOSE i \in DOMAIN x : x[i] \in ps /\ \A j \in 1..(i - 1) : x[j] \notin ps
    ELSE 0
RFind(x, ps) ==
    IF \E i \in DOMAIN x : x[i] \in ps
    THEN CHOOSE i \in DOMAIN x : x[i] \in ps /\ \A j \in (i + 1)..Len(x) : x[j] \notin ps
    ELSE 0
\* b[s : e + len(close)]: empty when the end is before the start
Slice(x, s, e) == IF e < s THEN << >> ELSE SubSeq(x, s, e)

\* the pieces that hold a '<', and those that hold a '>'
WithLt == OpenTags \cup CloseTags \cup {"P"}
WithGt == OpenTags \cup CloseTags

\* re.sub of the control characters by ' ' (the ANSI sequences go the same way)
StripControl(x) == [i \in DOMAIN x |-> IF x[i] = "C" THEN "SP" ELSE x[i]]

Rooted(x) == << "<root" >> \o x \o << "root>" >>

\* _repair_corrupt_xml
RepairCorruptXml(x0) ==
    IF x0 = << >> THEN Ok(<< >>)
    ELSE LET x1 == StripControl(x0)
             x  == IF Find(x1, {"<R"}) # 0 /\ Find(x1, {"R>"}) = 0
                   THEN Append(x1, "R>") ELSE x1
             s  == Find(x, WithLt)
             e  == RFind(x, WithGt)
             y  == Slice(x, s, e)
         IN TryExcept(Then(ParseString(x), x),
              TryExcept(Then(ParseString(Rooted(x)), Rooted(x)),
                IF s # 0 /\ e # 0
                THEN TryExcept(Then(ParseString(y), y), Ok(y))
                ELSE Ok(x)))

\* _extract_xml_fragment
ExtractXmlFragment(buff) ==
    TryExcept(
      IF buff = << >> THEN Ok(<< >>)
      ELSE LET s == Find(buff, {"<R"})
               e == RFind(buff, {"R>"})
           IN RepairCorruptXml(IF s # 0 /\ e # 0 THEN Slice(buff, s, e) ELSE buff),
      Ok(buff))

\* the re.sub of sanitize_xml_text: the echoed command lines are removed
RemoveCliEchoes(s) == SelectSeq(s, LAMBDA p : p # "K")

\* re.search(r'<interface-information[\s\S]*?</interface-information>'):
\* from the first opening tag to the first closing tag after it, << >> for
\* no match
InterfaceInformation(s) ==
    LET a == Find(s, {"<I"})
        after == IF a = 0 THEN << >> ELSE SubSeq(s, a + 1, Len(s))
        b == Find(after, {"I>"})
    IN IF a = 0 \/ b = 0 THEN << >> ELSE SubSeq(s, a, a + b)

\* sanitize_xml_text
SanitizeXmlText(raw) ==
    IF raw = << >> THEN Ok(<< >>)
    ELSE LET s  == RemoveCliEchoes(raw)
             s0 == Find(s, {"<R"})
             e0 == RFind(s, {"R>"})
             m  == InterfaceInformation(s)
         IN IF s0 # 0 /\ e0 # 0 THEN RepairCorruptXml(Slice(s, s0, e0))
            ELSE IF m # << >> THEN RepairCorruptXml(m)
            ELSE RepairCorruptXml(s)

\* frag = _extract_xml_fragment(capture)
CallExtract ==
    /\ cpc = "capture"
    /\ cret' = ExtractXmlFragment(carg)
    /\ cpc' = "extracted"
    /\ UNCHANGED <<carg, nodeVars, poolVars, recvVars, hopVars, probeVars, moreVars>>

\* frag = sanitize_xml_text(capture)
CallSanitize ==
    /\ cpc = "capture"
    /\ cret' = SanitizeXmlText(carg)
    /\ cpc' = "sanitized"
    /\ UNCHANGED <<carg, nodeVars, poolVars, recvVars, hopVars, probeVars, moreVars>>

NextRepair == CallExtract \/ CallSanitize

-----------------------------------------------------------------------------
(* parse_loopback0_ip and __is_ipv4.  A reply holds one address candidate, *)
(* a sequence of numeric parts, in one of three places:                    *)
(*   "lo0"   the ifa-local of family inet of logical interface lo0.0       *)
(*   "ifa"   an ifa-local element elsewhere in the XML reply               *)
(*   "text"  after the word inet in a text reply                           *)
(* The sentinel '-' is the empty sequence.                                 *)

\* most parts of a candidate
MaxParts == 5
Octets == {0, 255, 256, 1000}
Candidates == UNION { [1..n -> Octets] : n \in 3..MaxParts }
LoopbackReplies == [ where : {"lo0", "ifa", "text"}, parts : Candidates ]

NoAddress == << >>

\* __is_ipv4
IsIpv4(parts) == Len(parts) = 4 /\ \A i \in 1..4 : 0 <= parts[i] /\ parts[i] <= 255

\* \d{1,3}: a number of one to three digits
ThreeDigits(p) == 0 <= p /\ p < 1000

\* the walk over the parsed document: the ifa-local of lo0.0, then any
\* ifa-local, each returned when __is_ipv4 accepts it
StructuredWalk(r) ==
    IF r.where \in {"lo0", "ifa"} /\ IsIpv4(r.parts) THEN r.parts ELSE NoAddress

\* re.search(r'<ifa-local>\s*(\d{1,3}(?:\.\d{1,3}){3})\s*</ifa-local>', s)
IfaLocalPattern(r) ==
    IF /\ r.where \in {"lo0", "ifa"}
       /\ Len(r.parts) = 4
       /\ \A i \in 1..4 : ThreeDigits(r.parts[i])
    THEN r.parts ELSE NoAddress

\* re.search(r'\binet\s+(\d{1,3}(?:\.\d{1,3}){3})\b', s): the first four
\* parts, when the fourth ends at a word boundary
InetPattern(r) ==
    IF /\ r.where = "text"
       /\ Len(r.parts) >= 4
       /\ \A i \in 1..4 : ThreeDigits(r.parts[i])
    THEN SubSeq(r.parts, 1, 4) ELSE NoAddress

\* parse_loopback0_ip: what the patterns capture is returned as it is
ParseLoopback0Ip(r) ==
    IF StructuredWalk(r) # NoAddress THEN StructuredWalk(r)
    ELSE IF IfaLocalPattern(r) # NoAddress THEN IfaLocalPattern(r)
    ELSE InetPattern(r)

\* out['loopback'] = parse_loopback0_ip(reply)
CallLoopback ==
    /\ cpc = "reply"
    /\ cret' = ParseLoopback0Ip(carg)
    /\ cpc' = "loopback"
    /\ UNCHANGED <<carg, nodeVars, poolVars, recvVars, hopVars, probeVars, moreVars>>

NextLoopback == CallLoopback

-----------------------------------------------------------------------------
(* The choice of a filesystem in _parse_storage_xml and                    *)
(* _parse_storage_text.  A listing is a sequence of filesystems, each with *)
(* its mount point and its total size (in MB).                             *)

\* most filesystems in a listing
MaxFs == 3
\* the mount points tried.  The last one is a mount point whose text is
\* '/var' followed by a backslash and the letter b.
Mounts == {"/", "/var", "/.mount/var", "/var\\b"}
Totals == {1, 2}
Filesystems == [mount : Mounts, total : Totals]
Listings == UNION { [1..n -> Filesystems] : n \in 1..MaxFs }

\* any(re.search(pat, mount) for pat in PREF_MOUNT_PATTERNS), with
\* PREF_MOUNT_PATTERNS = [r'/(?:\\.mount/)?var\\b', r'/var\\b']: in a raw
\* string \\ is the regex for one backslash, so both patterns ask for the
\* text '/var', a backslash and a 'b'
MatchesPrefPattern(mount) == mount = "/var\\b"

\* the loop over the entries: best_by_pref is the last entry that matches a
\* pattern, best the first entry of the largest total; chosen_line (text
\* path) is written by both
RECURSIVE PickLoop(_, _, _)
PickLoop(fs, i, acc) ==
    IF i > Len(fs) THEN acc
    ELSE LET f  == fs[i]
             a1 == IF MatchesPrefPattern(f.mount)
                   THEN [acc EXCEPT !.best_by_pref = <<f>>, !.chosen_line = <<f>>]
                   ELSE acc
             a2 == IF f.total > a1.max_total
                   THEN [a1 EXCEPT !.max_total = f.total, !.best = <<f>>,
                                   !.chosen_line = <<f>>]
                   ELSE a1
         IN PickLoop(fs, i + 1, a2)

PickStart == [best_by_pref |-> << >>, best |-> << >>, max_total |-> -1,
              chosen_line |-> << >>]

\* picked = best_by_pref or best
Picked(acc) == IF acc.best_by_pref # << >> THEN acc.best_by_pref[1] ELSE acc.best[1]

\* _parse_storage_xml on a listing: the figures and 'chosen' of the picked entry
StorageXmlChoice(fs) ==
    LET p == Picked(PickLoop(fs, 1, PickStart))
    IN [total_mb |-> p.total, chosen |-> p.mount]

\* _parse_storage_text on a listing: the figures of the picked entry, and
\* 'chosen' the line last written to chosen_line
StorageTextChoice(fs) ==
    LET acc == PickLoop(fs, 1, PickStart)
    IN [total_mb |-> Picked(acc).total, chosen |-> acc.chosen_line[1].mount]

\* st_xml = _parse_storage_xml(stg_xml)
CallStorageXml ==
    /\ cpc = "listing"
    /\ cret' = StorageXmlChoice(carg)
    /\ cpc' = "xml-chosen"
    /\ UNCHANGED <<carg, nodeVars, poolVars, recvVars, hopVars, probeVars, moreVars>>

\* st_txt = _parse_storage_text(stg_txt)
CallStorageText ==
    /\ cpc = "listing"
    /\ cret' = StorageTextChoice(carg)
    /\ cpc' = "text-chosen"
    /\ UNCHANGED <<carg, nodeVars, poolVars, recvVars, hopVars, probeVars, moreVars>>

NextStorage == CallStorageXml \/ CallStorageText

-----------------------------------------------------------------------------
(* _detect_platform_and_sw: the platform from the hardware records, else   *)
(* from the 'Model:' token of show version, else from the node identifier. *)
(* A hardware record is kept as the set of known tags its text             *)
(* (model, component type, slot) holds; the 'Model:' token and the node    *)
(* identifier are taken from small tables of texts.                        *)

\* most hardware records in an inventory
MaxItems == 2

\* PLATFORM_TAGS, in the order of the dict
PlatformOrder ==
    << "PTX10004", "MX960", "MX480", "MX240", "MX204", "MX304", "MX2008", "MX10003" >>
PlatformTags(p) ==
    CASE p = "PTX10004" -> {"PTX10004", "JNP10004", "JNP10K", "JNP10K-LC1202",
                            "JNP10K-RE1", "JNP10004-CHAS"}
      [] p = "MX960"    -> {"MX960", "CHAS-MX960", "ENHANCED MX960 MIDPLANE"}
      [] p = "MX480"    -> {"MX480", "CHAS-MX480", "ENHANCED MX480 MIDPLANE"}
      [] p = "MX240"    -> {"MX240", "CHAS-MX240"}
      [] p = "MX204"    -> {"MX204"}
      [] p = "MX304"    -> {"MX304", "CHAS-MX304"}
      [] p = "MX2008"   -> {"MX2008"}
      [] OTHER          -> {"MX10003"}

NoPlatform == ""

\* the hardware records tried: a line card without a tag, the midplane of
\* an MX960, a line card of the PTX10004 family, a record that holds tags of
\* two platforms
HwBlobs ==
    { {},
      {"MX960", "ENHANCED MX960 MIDPLANE"},
      {"JNP10K", "JNP10K-LC1202"},
      {"MX480", "MX960"} }
Inventories == UNION { [1..n -> HwBlobs] : n \in 0..MaxItems }

\* the 'Model:' tokens tried ("" for a text without a Model: line)
ModelTokens == {"", "MX480", "MX9600", "MX80", "PTX5000", "QFX5100"}
\* the node identifiers tried
NodeNames == {"r1", "pe-mx240-1", "ptx10008-mx1", "mx104"}

\* for plat, tags in PLATFORM_TAGS.items(): if any(test(tag) ...): the first
\* platform of the table one of whose tags is in `found`
RECURSIVE FirstPlatform(_, _)
FirstPlatform(found, i) ==
    IF i > Len(PlatformOrder) THEN NoPlatform
    ELSE IF PlatformTags(PlatformOrder[i]) \cap found # {} THEN PlatformOrder[i]
    ELSE FirstPlatform(found, i + 1)

\* layer 1: the first hardware record whose text holds a tag
RECURSIVE HardwareLayer(_, _)
HardwareLayer(items, i) ==
    IF i > Len(items) THEN NoPlatform
    ELSE IF FirstPlatform(items[i], 1) # NoPlatform THEN FirstPlatform(items[i], 1)
    ELSE HardwareLayer(items, i + 1)

\* the tags a 'Model:' token starts with
TagsStarting(token) ==
    CASE token = "MX480"  -> {"MX480"}
      [] token = "MX9600" -> {"MX960"}
      [] OTHER            -> {}
\* re.match(r'^PTX\d+$', model_tag), re.match(r'^MX\d+$', model_tag)
IsFamilyToken(token) == token \in {"MX480", "MX9600", "MX80", "PTX5000"}

\* layer 2: the Model: token, by the table and then by its own text
ModelLayer(token) ==
    IF token = "" THEN NoPlatform
    ELSE IF FirstPlatform(TagsStarting(token), 1) # NoPlatform
         THEN FirstPlatform(TagsStarting(token), 1)
    ELSE IF IsFamilyToken(token) THEN token
    ELSE NoPlatform

\* layer 3: re.search(r'(PTX\d+)', hn), else re.search(r'(MX\d+)', hn), on
\* the upper-cased node identifier
HostnameLayer(node) ==
    CASE node = "pe-mx240-1"   -> "MX240"
      [] node = "ptx10008-mx1" -> "PTX10008"
      [] node = "mx104"        -> "MX104"
      [] OTHER                 -> NoPlatform

\* a layering in which the later layer wins
OrElse_LaterWins(platform, later) == IF later # NoPlatform THEN later ELSE platform
\* `if not platform: <next layer>`
OrElse(platform, later) == IF platform # NoPlatform THEN platform ELSE later

\* _detect_platform_and_sw, the platform of the returned triple
DetectPlatformAndSw(node, hw_items, model_token) ==
    LET platform == OrElse(HardwareLayer(hw_items, 1),
                           OrElse(ModelLayer(model_token), HostnameLayer(node)))
    IN IF platform = NoPlatform THEN "Unknown" ELSE platform

\* plat, os_type, raw = _detect_platform_and_sw(node, hardware_items, show_ver)
CallDetectPlatform ==
    /\ cpc = "detect"
    /\ cret' = DetectPlatformAndSw(carg.node, carg.hw_items, carg.model_token)
    /\ cpc' = "detected"
    /\ UNCHANGED <<carg, nodeVars, poolVars, recvVars, hopVars, probeVars, moreVars>>

NextPlatform == CallDetectPlatform

-----------------------------------------------------------------------------
(* parse_interfaces_xml_basic: the record of one physical interface        *)
(* (et-0/0/0) from its speed text and its input and output rates.  Rates   *)
(* and capacities are counted in units of 100 Mbit/s (10^8 bit/s), so that *)
(* 100_000_000_000 is 1000; a quotient a / b is kept as the pair <<a, b>>. *)

\* the speed texts tried ("" for an interface without a speed element)
Speeds == {"100Gbps", "10Gbps", "1Gbps", "1000mbps", "40Gbps", "Auto", ""}
\* the rates tried (input-bps and output-bps are counters, never negative)
Rates == {0, 5, 1000, 1500}
PhysicalInterfaces == [speed : Speeds, in_bps : Rates, out_bps : Rates]

\* cap = '100Gbps' if '100G' in s_up else '10Gbps' if '10G' in s_up else
\*       '1Gbps' if ('1G' in s_up or '1000M' in s_up) else (speed or '')
CapacityClass(speed) ==
    CASE speed = "100Gbps" -> "100Gbps"
      [] speed = "10Gbps"  -> "10Gbps"
      [] speed \in {"1Gbps", "1000mbps"} -> "1Gbps"
      [] OTHER -> speed

\* cap_bps = 100_000_000_000 if cap=='100Gbps' else 10_000_000_000 if
\*           cap=='10Gbps' else 1_000_000_000 if cap=='1Gbps' else 0
CapBps(cap) ==
    CASE cap = "100Gbps" -> 1000
      [] cap = "10Gbps"  -> 100
      [] cap = "1Gbps"   -> 10
      [] OTHER -> 0

\* a / b: ZeroDivisionError when b is 0
Divide(a, b) == IF b = 0 THEN Exc ELSE Ok(<<a, b>>)
\* 0.0
ZeroUtil == <<0, 1>>

\* a division that is made whatever the capacity
UtilGuard_Unguarded(cap_bps, peak) == TRUE
\* (cap_bps > 0 and peak > 0)
UtilGuard(cap_bps, peak) == cap_bps > 0 /\ peak > 0

\* util = (peak / cap_bps) if (cap_bps > 0 and peak > 0) else 0.0
Utilization(cap_bps, peak) ==
    IF UtilGuard(cap_bps, peak) THEN Divide(peak, cap_bps) ELSE Ok(ZeroUtil)

\* the record appended for the interface
InterfaceRecord(phys) ==
    LET cap     == CapacityClass(phys.speed)
        cap_bps == CapBps(cap)
        peak    == Max(phys.in_bps, phys.out_bps)
        util    == Utilization(cap_bps, peak)
    IN Then(util, [iface |-> "et-0/0/0", capacity |-> cap, util |-> util.val])

\* the body of the loop for this interface
CallInterfaceRecord ==
    /\ cpc = "phys"
    /\ cret' = InterfaceRecord(carg)
    /\ cpc' = "record"
    /\ UNCHANGED <<carg, nodeVars, poolVars, recvVars, hopVars, probeVars, moreVars>>

NextInterfaces == CallInterfaceRecord

-----------------------------------------------------------------------------
(* The worker count of the pool, as main computes it from the environment, *)
(* the node list and the machine.                                          *)

\* largest override tried
MaxOverride == 3

\* TELKOM_MAX_WORKERS: not set, a text of digits (its number n), or another
\* text such as '-2'
Overrides ==
    { [text |-> "unset", n |-> 0], [text |-> "other", n |-> -2] }
      \cup { [text |-> "digits", n |-> k] : k \in 0..MaxOverride }

\* os.cpu_count(): None, or the number of cores
CpuCounts == { None, Some(1), Some(2) }

WorkerConfigs ==
    [ override : Overrides, node_count : 0..NumNodes, cpu_count : CpuCounts,
      io_factor : {0, 1, 4}, hard_cap : {0, 2, 64} ]

Min(a, b) == IF a <= b THEN a ELSE b

\* an override taken as it is
ClampOverride_AsGiven(n) == n
\* max(1, int(max_workers_env))
ClampOverride(n) == Max(1, n)

\* min(len(nodes), (os.cpu_count() or 4) * io_factor, hard_cap)
ComputedWorkers(c) ==
    Min(c.node_count,
        Min((IF c.cpu_count = None THEN 4 ELSE c.cpu_count[1]) * c.io_factor, c.hard_cap))

\* if max_workers_env and max_workers_env.isdigit(): ... else: ...
MaxWorkers(c) ==
    IF c.override.text = "digits" THEN ClampOverride(c.override.n)
    ELSE ComputedWorkers(c)

\* main computes max_workers
CallMaxWorkers ==
    /\ cpc = "config"
    /\ cret' = MaxWorkers(carg)
    /\ cpc' = "workers"
    /\ UNCHANGED <<carg, nodeVars, poolVars, recvVars, hopVars, probeVars, moreVars>>

NextWorkers == CallMaxWorkers

-----------------------------------------------------------------------------
(* The start of main: the access file, the reachability probe of the       *)
(* access hosts, and the steps between the probe and the first submit      *)
(* (workbook, node list, pool).  main ends at "exit1" (sys.exit(1)),       *)
(* "exit2" (sys.exit(2)) or "crash" (an exception leaves main), or goes on *)
(* to submit its node tasks at "submit".                                   *)

\* INITIAL_TEST_RETRIES, INITIAL_TEST_RETRY_DELAY
INITIAL_TEST_RETRIES == 5
INITIAL_TEST_RETRY_DELAY == 10

\* most tacacs-server entries in the access file
MaxHosts == 2
Hosts == 1..MaxHosts

\* a loop that goes round once more
MayTry_OnceMore(tried) == tried <= INITIAL_TEST_RETRIES + 1
\* while tried <= INITIAL_TEST_RETRIES
MayTry(tried) == tried <= INITIAL_TEST_RETRIES

\* the access file: missing or unparsable is sys.exit(1)
ReadAccessFile ==
    /\ ppc = "access"
    /\ \E ok \in BOOLEAN : ppc' = IF ok THEN "host" ELSE "exit1"
    /\ UNCHANGED <<phosts, pidx, ptried, pattempts, pslept, pchosen, pnodes,
                   nodeVars, poolVars, recvVars, hopVars, callVars, moreVars>>

\* for i in range(tacacs_list.length): tac = ...; tried = 0; client = ...
ProbeNextHost ==
    /\ ppc = "host"
    /\ IF pidx <= phosts
       THEN ptried' = 0 /\ ppc' = "loop"
       ELSE ptried' = ptried /\ ppc' = "chosen?"
    /\ UNCHANGED <<phosts, pidx, pattempts, pslept, pchosen, pnodes,
                   nodeVars, poolVars, recvVars, hopVars, callVars, moreVars>>

\* one turn of the while loop: tried += 1; client.connect(...); on success
\* tacacs_chosen = tac and break; on failure the log line and, when another
\* turn follows, time.sleep(INITIAL_TEST_RETRY_DELAY)
ProbeAttempt ==
    /\ ppc = "loop"
    /\ MayTry(ptried)
    /\ ptried' = ptried + 1
    /\ pattempts' = [pattempts EXCEPT ![pidx] = @ + 1]
    /\ \E accepted \in BOOLEAN :
         IF accepted
         THEN /\ pchosen' = pidx
              /\ ppc' = "after"
              /\ UNCHANGED pslept
         ELSE /\ pslept' = IF ptried + 1 <= INITIAL_TEST_RETRIES
                           THEN [pslept EXCEPT ![pidx] = @ + INITIAL_TEST_RETRY_DELAY]
                           ELSE pslept
              /\ UNCHANGED <<pchosen, ppc>>
    /\ UNCHANGED <<phosts, pidx, pnodes, nodeVars, poolVars, recvVars, hopVars, callVars, moreVars>>

\* the while condition is false
ProbeGiveUp ==
    /\ ppc = "loop"
    /\ ~MayTry(ptried)
    /\ ppc' = "after"
    /\ UNCHANGED <<phosts, pidx, ptried, pattempts, pslept, pchosen, pnodes,
                   nodeVars, poolVars, recvVars, hopVars, callVars, moreVars>>

\* client.close(); if tacacs_chosen: break
ProbeAfterHost ==
    /\ ppc = "after"
    /\ IF pchosen # 0
       THEN ppc' = "chosen?" /\ pidx' = pidx
       ELSE ppc' = "host" /\ pidx' = pidx + 1
    /\ UNCHANGED <<phosts, ptried, pattempts, pslept, pchosen, pnodes,
                   nodeVars, poolVars, recvVars, hopVars, callVars, moreVars>>

\* if not tacacs_chosen: sys.exit(2)
ProbeVerdict ==
    /\ ppc = "chosen?"
    /\ ppc' = IF pchosen = 0 THEN "exit2" ELSE "workbook"
    /\ UNCHANGED <<phosts, pidx, ptried, pattempts, pslept, pchosen, pnodes,
                   nodeVars, poolVars, recvVars, hopVars, callVars, moreVars>>

\* workbook_create / load_workbook: a failure to load is sys.exit(1)
LoadWorkbook ==
    /\ ppc = "workbook"
    /\ \E ok \in BOOLEAN : ppc' = IF ok THEN "nodelist" ELSE "exit1"
    /\ UNCHANGED <<phosts, pidx, ptried, pattempts, pslept, pchosen, pnodes,
                   nodeVars, poolVars, recvVars, hopVars, callVars, moreVars>>

\* the node list: a missing file is sys.exit(1); else its non-empty lines
ReadNodeList ==
    /\ ppc = "nodelist"
    /\ \/ ppc' = "exit1" /\ pnodes' = pnodes
       \/ \E n \in 0..NumNodes : pnodes' = n /\ ppc' = "pool"
    /\ UNCHANGED <<phosts, pidx, ptried, pattempts, pslept, pchosen,
                   nodeVars, poolVars, recvVars, hopVars, callVars, moreVars>>

\* ThreadPoolExecutor(max_workers=max_workers) raises ValueError for
\* max_workers <= 0; else the submits follow
CreatePool ==
    /\ ppc = "pool"
    /\ \E c \in WorkerConfigs :
         /\ c.node_count = pnodes
         /\ ppc' = IF MaxWorkers(c) <= 0 THEN "crash" ELSE "submit"
    /\ UNCHANGED <<phosts, pidx, ptried, pattempts, pslept, pchosen, pnodes,
                   nodeVars, poolVars, recvVars, hopVars, callVars, moreVars>>

NextProbe ==
    \/ ReadAccessFile \/ ProbeNextHost \/ ProbeAttempt \/ ProbeGiveUp
    \/ ProbeAfterHost \/ ProbeVerdict \/ LoadWorkbook \/ ReadNodeList \/ CreatePool

-----------------------------------------------------------------------------
(* The three structured parsers: parse_interfaces_xml_basic,               *)
(* parse_chassis_alarms and parse_hardware_inventory.  The reply is taken  *)
(* after _parse_fragments_to_dom: either no document (None), or the list   *)
(* of the elements the parser walks (physical-interface, alarm-detail,     *)
(* chassis-module).  Of each element the model keeps its first text-       *)
(* bearing child (name, alarm-time, name): what its first child node is,   *)
(* and its text.                                                           *)

\* most elements in a reply
MaxElems == 3

\* the texts of the child: an interface that is recorded, one that is
\* skipped (lc-), one that is neither, and an empty text
ChildTexts == {"et-0/0/0", "lc-0/0/0", "lo0"}

\* the child's first node is a text node, or an element (<name><b/>x</name>),
\* or the child is missing
Elements ==
    { [child |-> "text", text |-> t] : t \in ChildTexts }
      \cup { [child |-> "element", text |-> ""], [child |-> "missing", text |-> ""] }

\* doc: ok FALSE when _parse_fragments_to_dom returned None
Documents ==
    { [ok |-> FALSE, elems |-> << >>] }
      \cup { [ok |-> TRUE, elems |-> e] : e \in UNION { [1..n -> Elements] : n \in 0..MaxElems } }

\* nodes[0].firstChild.data.strip() if nodes and nodes[0].firstChild else '':
\* an element node has no attribute 'data' (AttributeError)
FirstChildData(el) ==
    CASE el.child = "text"    -> Ok(el.text)
      [] el.child = "element" -> Exc
      [] OTHER                -> Ok("")

\* _get_first_text: try: ... except Exception: return ''
GetFirstText(el) == TryExcept(FirstChildData(el), Ok(""))

\* name.startswith('lc-') or ...; name.startswith(('ae-','et-','xe-','ge-'))
IsInternalName(name) == name = "lc-0/0/0"
IsPortName(name) == name = "et-0/0/0"

\* the list a parser returns, and whether its except clause was entered
Returned(results, excepted) == [raised |-> FALSE, failed |-> excepted, val |-> results]

\* the for loop of parse_interfaces_xml_basic from element i on; results is
\* the list appended to so far, which the except clause returns as it is
RECURSIVE InterfacesLoop(_, _, _)
InterfacesLoop(phys_list, i, results) ==
    IF i > Len(phys_list) THEN Returned(results, FALSE)
    ELSE LET name == FirstChildData(phys_list[i])
         IN IF name.exc THEN Returned(results, TRUE)
            ELSE IF IsInternalName(name.val) THEN InterfacesLoop(phys_list, i + 1, results)
            ELSE IF IsPortName(name.val)
                 THEN InterfacesLoop(phys_list, i + 1, Append(results, [iface |-> name.val]))
            ELSE InterfacesLoop(phys_list, i + 1, results)

\* parse_interfaces_xml_basic(xml_text)
ParseInterfacesXmlBasic(doc) ==
    IF ~doc.ok \/ doc.elems = << >> THEN Returned(<< >>, FALSE)
    ELSE InterfacesLoop(doc.elems, 1, << >>)

\* the for loop of parse_chassis_alarms: every field is read by
\* _get_first_text, and the detail is appended if any of them has text
RECURSIVE AlarmsLoop(_, _, _)
AlarmsLoop(details, i, alarms) ==
    IF i > Len(details) THEN Returned(alarms, FALSE)
    ELSE LET t == GetFirstText(details[i]).val
         IN AlarmsLoop(details, i + 1,
                       IF t # "" THEN Append(alarms, [time |-> t]) ELSE alarms)

\* parse_chassis_alarms(xml_text)
ParseChassisAlarmsDoc(doc) ==
    IF ~doc.ok THEN Returned(<< >>, FALSE) ELSE AlarmsLoop(doc.elems, 1, << >>)

\* the chassis-module loop of parse_hardware_inventory:
\* name = _get_first_text(mod, 'name') or 'Module'
RECURSIVE HardwareLoop(_, _, _)
HardwareLoop(mods, i, items) ==
    IF i > Len(mods) THEN Returned(items, FALSE)
    ELSE LET t    == GetFirstText(mods[i]).val
             name == IF t # "" THEN t ELSE "Module"
         IN HardwareLoop(mods, i + 1, Append(items, [slot |-> name]))

\* parse_hardware_inventory(xml_text)
ParseHardwareInventoryDoc(doc) ==
    IF ~doc.ok THEN Returned(<< >>, FALSE) ELSE HardwareLoop(doc.elems, 1, << >>)

CallParseInterfaces ==
    /\ cpc = "doc"
    /\ cret' = ParseInterfacesXmlBasic(carg)
    /\ cpc' = "interfaces"
    /\ UNCHANGED <<carg, nodeVars, poolVars, recvVars, hopVars, probeVars, moreVars>>

CallParseAlarms ==
    /\ cpc = "doc"
    /\ cret' = ParseChassisAlarmsDoc(carg)
    /\ cpc' = "alarms"
    /\ UNCHANGED <<carg, nodeVars, poolVars, recvVars, hopVars, probeVars, moreVars>>

CallParseHardware ==
    /\ cpc = "doc"
    /\ cret' = ParseHardwareInventoryDoc(carg)
    /\ cpc' = "hardware"
    /\ UNCHANGED <<carg, nodeVars, poolVars, recvVars, hopVars, probeVars, moreVars>>

NextParsers == CallParseInterfaces \/ CallParseAlarms \/ CallParseHardware

-----------------------------------------------------------------------------
(* Storage reconciliation: what _parse_storage_xml makes of the fields of  *)
(* the filesystem entry it picked, and the choice _collect_for_node makes  *)
(* between that result and the result of _parse_storage_text.  A field of  *)
(* the entry is a text, "" when the element is missing from the reply.     *)

\* the structured reply: no document, a document with no filesystem entry,
\* or one filesystem entry with its four field texts (numbers as texts of
\* digits, used-percent also as a text without digits)
XmlStorageReplies ==
    { [kind |-> "nodoc", total |-> "", used |-> "", avail |-> "", perc |-> ""],
      [kind |-> "nofs",  total |-> "", used |-> "", avail |-> "", perc |-> ""] }
      \cup [ kind : {"fs"}, total : {"", "1000"}, used : {"", "250"},
             avail : {"", "750"}, perc : {"", "25", "N/A"} ]

\* the text reply: no filesystem line, or one of two lines
TextStorageReplies == {"none", "2000 1000 1000 50%", "500 100 400 20%"}

\* _to_mb(val_str): 0.0 for an empty text, float(s) for digits
ToMb(txt) ==
    CASE txt = ""     -> 0
      [] txt = "1000" -> 1000
      [] txt = "250"  -> 250
      [] txt = "750"  -> 750
      [] OTHER        -> 0

\* int(round((used/total)*100)) if total>0 else 0 (the quotients met here are whole)
ComputedPercent(used, total) == IF total > 0 THEN (used * 100) \div total ELSE 0

\* int(re.sub('[^0-9]','', perc_txt)): ValueError when no digit is left
PercentText(perc_txt) ==
    CASE perc_txt = "25" -> Ok(25)
      [] OTHER           -> Exc

\* util = int(...) if perc_txt else (...computed...), except Exception: computed
UtilOfEntry(perc_txt, used, total) ==
    IF perc_txt # ""
    THEN TryExcept(PercentText(perc_txt), Ok(ComputedPercent(used, total))).val
    ELSE ComputedPercent(used, total)

\* _parse_storage_xml(xml_text): None, or the dict of the picked entry
ParseStorageXmlReply(reply) ==
    IF reply.kind # "fs" THEN NoStorage
    ELSE LET total == ToMb(reply.total)
             used  == ToMb(reply.used)
             free  == ToMb(reply.avail)
         IN [ isNone |-> FALSE, total_mb |-> Some(total), used_mb |-> Some(used),
              free_mb |-> Some(free),
              util_percent |-> Some(UtilOfEntry(reply.perc, used, total)) ]

\* _parse_storage_text(storage_text): always a dict
ParseStorageTextReply(txt) ==
    CASE txt = "2000 1000 1000 50%" ->
           [ isNone |-> FALSE, total_mb |-> Some(2000), used_mb |-> Some(1000),
             free_mb |-> Some(1000), util_percent |-> Some(50) ]
      [] txt = "500 100 400 20%" ->
           [ isNone |-> FALSE, total_mb |-> Some(500), used_mb |-> Some(100),
             free_mb |-> Some(400), util_percent |-> Some(20) ]
      [] OTHER ->
           [ isNone |-> FALSE, total_mb |-> None, used_mb |-> None,
             free_mb |-> None, util_percent |-> None ]

\* st_xml = ...; st_txt = ...; chosen = st_xml if ... else st_txt
CallReconcile ==
    /\ cpc = "storage-replies"
    /\ LET st_xml == ParseStorageXmlReply(carg.xml)
           st_txt == ParseStorageTextReply(carg.txt)
       IN cret' = [st_xml |-> st_xml, st_txt |-> st_txt,
                   chosen |-> ChooseStorage(st_xml, st_txt)]
    /\ cpc' = "reconciled"
    /\ UNCHANGED <<carg, nodeVars, poolVars, recvVars, hopVars, probeVars, moreVars>>

\* the four assignments that follow
CallAssignStorage ==
    /\ cpc = "reconciled"
    /\ cret' = cret @@ [assigned |-> AssignStorage(NewOut(1).system_info, cret.chosen)]
    /\ cpc' = "assigned"
    /\ UNCHANGED <<carg, nodeVars, poolVars, recvVars, hopVars, probeVars, moreVars>>

NextReconcile == CallReconcile \/ CallAssignStorage

-----------------------------------------------------------------------------
(* main's loop `for idx, fut in enumerate(as_completed(futures), 1)`: the  *)
(* order in which the results reach results_per_node.  as_completed is     *)
(* concurrent.futures.as_completed: at its first step it takes the set of  *)
(* the futures that are already complete and installs a waiter on all of   *)
(* them; it yields that set first (a set of objects: in no specified       *)
(* order), then repeatedly takes waiter.finished_futures, to which each    *)
(* future is appended at the moment it completes, and yields them in that  *)
(* order.  A future yielded is the last element of the local list.         *)

\* the set of the elements of a sequence
Range(s) == { s[i] : i \in 1..Len(s) }

\* the position of x in the sequence s (0 when absent)
Pos(s, x) == IF x \in Range(s) THEN CHOOSE i \in 1..Len(s) : s[i] = x ELSE 0

RECURSIVE Reverse(_)
Reverse(s) == IF s = << >> THEN << >> ELSE Append(Reverse(Tail(s)), Head(s))

\* the lists without repetition of the elements of a set: list(finished)
ListsOf(S) == { q \in [1..Cardinality(S) -> S] : Range(q) = S }

\* the futures as_completed has yielded: complete, and in neither list
KYielded == Range(kdone) \ (Range(kwaiter) \cup Range(kbatch))

\* a batch yielded as the list is
TakeBatch_Unreversed(finished_futures) == finished_futures
\* finished = waiter.finished_futures; finished.reverse()
TakeBatch(finished_futures) == Reverse(finished_futures)

\* ex.submit(_collect_for_node, node, ...) for node in nodes
KSubmit(n) ==
    /\ kpc = "submit"
    /\ kstate[n] = "new"
    /\ \A m \in Nodes : m < n => kstate[m] # "new"
    /\ kstate' = [kstate EXCEPT ![n] = "pending"]
    /\ kpc' = IF n = NumNodes THEN "scan" ELSE "submit"
    /\ UNCHANGED <<kworkers, kdone, kwaiter, kbatch, kfirst, kresults,
                   nodeVars, poolVars, recvVars, hopVars, callVars, probeVars, sessVars, saveVars>>

\* a free worker thread takes the oldest queued future
KStart(n) ==
    /\ kstate[n] = "pending"
    /\ \A m \in Nodes : m < n => kstate[m] # "pending"
    /\ Cardinality({ m \in Nodes : kstate[m] = "running" }) < kworkers
    /\ kstate' = [kstate EXCEPT ![n] = "running"]
    /\ UNCHANGED <<kpc, kworkers, kdone, kwaiter, kbatch, kfirst, kresults,
                   nodeVars, poolVars, recvVars, hopVars, callVars, probeVars, sessVars, saveVars>>

\* _collect_for_node returns its dict, or raises (the FileHandler): the
\* future completes, and is appended to the list of an installed waiter
KFinish(n) ==
    /\ kstate[n] = "running"
    /\ \E o \in {"returned", "raised"} : kstate' = [kstate EXCEPT ![n] = o]
    /\ kdone' = Append(kdone, n)
    /\ kwaiter' = IF kpc \in {"wait", "yield"} THEN Append(kwaiter, n) ELSE kwaiter
    /\ UNCHANGED <<kpc, kworkers, kbatch, kfirst, kresults,
                   nodeVars, poolVars, recvVars, hopVars, callVars, probeVars, sessVars, saveVars>>

\* the first step of as_completed(futures): finished = set(f for f in fs if
\* f is complete); the waiter; finished = list(finished)
KScan ==
    /\ kpc = "scan"
    /\ kfirst' = Range(kdone)
    /\ kbatch' \in ListsOf(Range(kdone))
    /\ kpc' = IF kdone = << >> THEN "wait" ELSE "yield"
    /\ UNCHANGED <<kworkers, kstate, kdone, kwaiter, kresults,
                   nodeVars, poolVars, recvVars, hopVars, callVars, probeVars, sessVars, saveVars>>

\* while pending: waiter.event.wait(); finished = waiter.finished_futures;
\* waiter.finished_futures = []; finished.reverse()
KWait ==
    /\ kpc = "wait"
    /\ kwaiter # << >>
    /\ kbatch' = TakeBatch(kwaiter)
    /\ kwaiter' = << >>
    /\ kpc' = "yield"
    /\ UNCHANGED <<kworkers, kstate, kdone, kfirst, kresults,
                   nodeVars, poolVars, recvVars, hopVars, callVars, probeVars, sessVars, saveVars>>

\* yield fs.pop(), and the body of main's loop for that future:
\* res = fut.result(); results_per_node.append(res), or 'Thread failed'
KYield ==
    /\ kpc = "yield"
    /\ kbatch # << >>
    /\ LET fut  == kbatch[Len(kbatch)]
           rest == SubSeq(kbatch, 1, Len(kbatch) - 1)
       IN /\ kbatch' = rest
          /\ kresults' = IF kstate[fut] = "returned" THEN Append(kresults, fut)
                         ELSE kresults
          /\ kpc' = IF rest # << >> THEN "yield"
                    ELSE IF KYielded \cup {fut} = Nodes THEN "done" ELSE "wait"
    /\ UNCHANGED <<kworkers, kstate, kdone, kwaiter, kfirst,
                   nodeVars, poolVars, recvVars, hopVars, callVars, probeVars, sessVars, saveVars>>

NextCollect ==
    \/ \E n \in Nodes : KSubmit(n)
    \/ \E n \in Nodes : KStart(n)
    \/ \E n \in Nodes : KFinish(n)
    \/ KScan
    \/ KWait
    \/ KYield

-----------------------------------------------------------------------------
(* The terminal sessions of concurrent node tasks and their 'paging        *)
(* disabled' flag.  JunosCliSession declares _paging_disabled = False in   *)
(* the class body; ensure_no_paging reads it with getattr (the attribute   *)
(* of the session object if it has one, else the attribute of the class)   *)
(* and writes it on the session object.  A helper call is two steps when   *)
(* it waits in ensure_no_paging for the reply to the no-paging command,    *)
(* so that the calls of different node tasks interleave.                   *)

\* sessions (node tasks) running at the same time
NumSess == 2
\* helper calls made on one session
MaxCalls == 2

Sessions == 1..NumSess

\* the helpers called on a session
Helpers == {"ensure_no_paging", "junos_run_text", "junos_xml", "junos_xml_save_and_read"}

\* getattr(session, '_paging_disabled', False)
PagingDisabled(n) == IF n \in spaging.inst THEN TRUE ELSE spaging.cls

\* an assignment to the attribute of the class
SetPagingDisabled_OnClass(paging, n) == [paging EXCEPT !.cls = TRUE]
\* session._paging_disabled = True
SetPagingDisabled(paging, n) == [paging EXCEPT !.inst = @ \cup {n}]

\* the no-paging commands a helper sends before it calls ensure_no_paging or
\* instead of calling it: junos_xml and junos_xml_save_and_read send one
OwnNoPaging(h) == IF h \in {"junos_xml", "junos_xml_save_and_read"} THEN 1 ELSE 0

\* the helper calls ensure_no_paging
CallsEnsure(h) == h # "junos_xml_save_and_read"

\* chan = client.invoke_shell(...); JunosCliSession(chan)
SessCreate(n) ==
    /\ spc[n] = "none"
    /\ spc' = [spc EXCEPT ![n] = "idle"]
    /\ UNCHANGED <<sret, spaging, sset, ssent, scalls,
                   nodeVars, poolVars, recvVars, hopVars, callVars, probeVars, collectVars, saveVars>>

\* a helper is called on the session, up to the point where it returns or
\* waits for the reply to the no-paging command of ensure_no_paging.
\* session.send raising ends the helper (its except returns '').
HelperCall(n, h) ==
    /\ spc[n] = "idle"
    /\ scalls[n] < MaxCalls
    /\ scalls' = [scalls EXCEPT ![n] = @ + 1]
    /\ \E o \in {"ok", "send_raises"} :
         IF o = "send_raises"
         THEN UNCHANGED <<spc, sret, ssent>>
         ELSE IF CallsEnsure(h) /\ ~PagingDisabled(n)
              THEN /\ ssent' = [ssent EXCEPT ![n] = @ + OwnNoPaging(h) + 1]
                   /\ spc' = [spc EXCEPT ![n] = "ensure"]
                   /\ sret' = [sret EXCEPT ![n] = h]
              ELSE /\ ssent' = [ssent EXCEPT ![n] = @ + OwnNoPaging(h)]
                   /\ UNCHANGED <<spc, sret>>
    /\ UNCHANGED <<spaging, sset,
                   nodeVars, poolVars, recvVars, hopVars, callVars, probeVars, collectVars, saveVars>>

\* the rest of ensure_no_paging: the two receives, then the flag; a receive
\* raising leaves the flag as it is (except Exception: pass).  The caller
\* then sends its command and returns.
EnsureReturn(n) ==
    /\ spc[n] = "ensure"
    /\ \E o \in {"ok", "recv_raises"} :
         IF o = "ok"
         THEN /\ spaging' = SetPagingDisabled(spaging, n)
              /\ sset' = sset \cup {n}
         ELSE UNCHANGED <<spaging, sset>>
    /\ spc' = [spc EXCEPT ![n] = "idle"]
    /\ sret' = [sret EXCEPT ![n] = "none"]
    /\ UNCHANGED <<ssent, scalls,
                   nodeVars, poolVars, recvVars, hopVars, callVars, probeVars, collectVars, saveVars>>

\* finally: client.close()
SessClose(n) ==
    /\ spc[n] = "idle"
    /\ spc' = [spc EXCEPT ![n] = "closed"]
    /\ UNCHANGED <<sret, spaging, sset, ssent, scalls,
                   nodeVars, poolVars, recvVars, hopVars, callVars, probeVars, collectVars, saveVars>>

NextSess ==
    \/ \E n \in Sessions : SessCreate(n)
    \/ \E n \in Sessions, h \in Helpers : HelperCall(n, h)
    \/ \E n \in Sessions : EnsureReturn(n)
    \/ \E n \in Sessions : SessClose(n)

-----------------------------------------------------------------------------
(* junos_xml_save_and_read: the save command, the read-back with           *)
(* `file show`, the size probe with `file list`, the second read-back and  *)
(* the return.  The device is sent lines; what session.send is given is    *)
(* cut at its newlines, as the device's command line does.  A text is kept *)
(* as its length in bytes and whether it holds '<rpc-reply' and            *)
(* '</rpc-reply>'.  Time is counted in polls (time.sleep(0.05)), the 60 s  *)
(* of a read loop being ReadPolls of them.                                 *)

\* polls within the timeout of a read loop
ReadPolls == 2
\* bytes in a chunk of the file
ChunkLen == 100
\* len('</rpc-reply>') and len('<root></root>')
MarkerLen == 12
RootLen == 13

NoText == [n |-> 0, open |-> FALSE, close |-> FALSE]

\* buf += chunk
Concat(buf, chunk) ==
    [n |-> buf.n + chunk.n, open |-> buf.open \/ chunk.open,
     close |-> buf.close \/ chunk.close]

\* the file as the device sends it: the opening tag first, the closing
\* marker last
FileChunks ==
    << [n |-> ChunkLen, open |-> TRUE, close |-> FALSE],
       [n |-> ChunkLen, open |-> FALSE, close |-> FALSE],
       [n |-> MarkerLen, open |-> FALSE, close |-> TRUE] >>
FileSize == ChunkLen + ChunkLen + MarkerLen

\* the device's reply to `file show tmp_path`: the file, or an error line
FileShowReply(file) ==
    IF file = "absent" THEN << [n |-> 20, open |-> FALSE, close |-> FALSE] >>
    ELSE FileChunks

\* f"{base_cmd}\n display xml\n save {tmp_path}": the lines of the text sent
SaveCommandLines == << "show", " display xml", " save tmp_path" >>

\* a command line that writes the reply of a command to a file
Persists(line) == line = "show | display xml | save tmp_path"

\* the file after the device has run the lines
FileAfter(file, lines) ==
    IF \E i \in 1..Len(lines) : Persists(lines[i]) THEN "fresh" ELSE file

\* sanitize_xml_text on a buffer: both markers, the reply between them; an
\* opening marker alone, '</rpc-reply>' appended; a closing marker alone,
\* the slice from the first '<' to the last '>'; no marker, <root>..</root>
SanitizeBuf(t) ==
    CASE t.n = 0               -> NoText
      [] t.open /\ t.close     -> t
      [] t.open /\ ~t.close    -> [n |-> t.n + MarkerLen, open |-> TRUE, close |-> TRUE]
      [] ~t.open /\ t.close    -> [n |-> MarkerLen, open |-> FALSE, close |-> TRUE]
      [] OTHER                 -> [n |-> t.n + RootLen, open |-> FALSE, close |-> FALSE]

\* if sz and len(pay.encode(...)) >= sz
SizeReached(buf, sz) == sz # 0 /\ SanitizeBuf(buf).n >= sz

\* the no-paging command (its failure ignored) and the save command with
\* its wait; an exception of the send goes to the outer except: return ''
VSave ==
    /\ vpc = "start"
    /\ \E o \in {"ok", "raise"} :
         IF o = "raise"
         THEN /\ vpc' = "returned" /\ vret' = NoText
              /\ UNCHANGED <<vsent, vfile>>
         ELSE /\ vsent' = vsent \o << "set cli screen-length 0" >> \o SaveCommandLines
              /\ vfile' = FileAfter(vfile, SaveCommandLines)
              /\ vpc' = "show"
              /\ UNCHANGED vret
    /\ UNCHANGED <<vstream, vbuf, vsz, vleft, vhow,
                   nodeVars, poolVars, recvVars, hopVars, callVars, probeVars,
                   collectVars, sessVars>>

\* session.send(f"file show {tmp_path}\n") and the start of
\* recv_until_tag_close(timeout=60)
VShow ==
    /\ vpc = "show"
    /\ vsent' = Append(vsent, "file show")
    /\ vstream' = vstream \o FileShowReply(vfile)
    /\ vbuf' = NoText
    /\ vleft' = ReadPolls
    /\ vpc' = "read1"
    /\ UNCHANGED <<vfile, vsz, vhow, vret,
                   nodeVars, poolVars, recvVars, hopVars, callVars, probeVars,
                   collectVars, sessVars>>

\* a chunk is ready: buf += chunk; break on the marker and, in the second
\* loop, on the size
VRecv ==
    /\ vpc \in {"read1", "read2"}
    /\ vleft > 0
    /\ vstream # << >>
    /\ LET b == Concat(vbuf, Head(vstream))
       IN /\ vbuf' = b
          /\ IF b.close
             THEN vhow' = "marker" /\ vpc' = "exit"
             ELSE IF vpc = "read2" /\ SizeReached(b, vsz)
             THEN vhow' = "size" /\ vpc' = "exit"
             ELSE UNCHANGED <<vhow, vpc>>
    /\ vstream' = Tail(vstream)
    /\ UNCHANGED <<vfile, vsent, vsz, vleft, vret,
                   nodeVars, poolVars, recvVars, hopVars, callVars, probeVars,
                   collectVars, sessVars>>

\* nothing is ready: time.sleep(0.05)
VSleep ==
    /\ vpc \in {"read1", "read2"}
    /\ vleft > 0
    /\ vleft' = vleft - 1
    /\ UNCHANGED <<vpc, vfile, vsent, vstream, vbuf, vsz, vhow, vret,
                   nodeVars, poolVars, recvVars, hopVars, callVars, probeVars,
                   collectVars, sessVars>>

\* time.monotonic() < end is false
VTimeout ==
    /\ vpc \in {"read1", "read2"}
    /\ vleft = 0
    /\ vhow' = "timeout"
    /\ vpc' = IF vpc = "read1" THEN "probe" ELSE "exit"
    /\ UNCHANGED <<vfile, vsent, vstream, vbuf, vsz, vleft, vret,
                   nodeVars, poolVars, recvVars, hopVars, callVars, probeVars,
                   collectVars, sessVars>>

\* if '</rpc-reply>' not in out_show: `file list tmp_path detail` for the
\* size (0 when none is found or the exchange raises), then `file show`
\* again with buf = '' and a new deadline
VProbe ==
    /\ vpc = "probe"
    /\ \E o \in {"size", "nosize"} :
         /\ o = "size" => vfile # "absent"
         /\ vsz' = IF o = "size" THEN FileSize ELSE 0
    /\ vsent' = vsent \o << "file list", "file show" >>
    /\ vstream' = vstream \o FileShowReply(vfile)
    /\ vbuf' = NoText
    /\ vleft' = ReadPolls
    /\ vpc' = "read2"
    /\ UNCHANGED <<vfile, vhow, vret,
                   nodeVars, poolVars, recvVars, hopVars, callVars, probeVars,
                   collectVars, sessVars>>

\* xml_text = sanitize_xml_text(out_show); return xml_text or out_show
VReturn ==
    /\ vpc = "exit"
    /\ vret' = (IF SanitizeBuf(vbuf).n # 0 THEN SanitizeBuf(vbuf) ELSE vbuf)
    /\ vpc' = "returned"
    /\ UNCHANGED <<vfile, vsent, vstream, vbuf, vsz, vleft, vhow,
                   nodeVars, poolVars, recvVars, hopVars, callVars, probeVars,
                   collectVars, sessVars>>

NextSave == VSave \/ VShow \/ VRecv \/ VSleep \/ VTimeout \/ VProbe \/ VReturn

-----------------------------------------------------------------------------
(* The walk of parse_loopback0_ip over the parsed reply: the logical        *)
(* interfaces of the document in order, each with its name, the name of    *)
(* its address family and the ifa-local of its interface address (one      *)
(* family and one address per logical interface).                          *)

\* most logical interfaces in a reply
MaxLis == 2

\* names: 'lo0.0', a spelling that strip().lower() turns into it, another unit
LiNames == {"lo0.0", " LO0.0", "lo0.16384"}
\* address-family-name ("" when missing)
FamilyNames == {"inet", "inet6", "iso", ""}
\* ifa-local: an IPv4 address, a text __is_ipv4 refuses, or none
IfaLocals == { <<10, 0, 0, 1>>, <<256, 0, 0, 1>>, NoAddress }

LogicalInterfaces == [name : LiNames, afn : FamilyNames, ifa : IfaLocals]
LoopbackDocs == UNION { [1..n -> LogicalInterfaces] : n \in 0..MaxLis }

\* name.strip().lower() == 'lo0.0'
IsLo00(name) == name \in {"lo0.0", " LO0.0"}
\* afn and 'inet' in afn.lower()
InetFamily(afn) == afn \in {"inet", "inet6"}

\* the first, in document order, of the positions a loop accepts (0 when none)
FirstIndex(S) == IF S = {} THEN 0 ELSE CHOOSE i \in S : \A j \in S : i <= j

\* first loop: the ifa-local of an inet family of lo0.0 that __is_ipv4 accepts
InLo00(li) == IsLo00(li.name) /\ InetFamily(li.afn) /\ IsIpv4(li.ifa)
\* second loop: for c in doc.getElementsByTagName('ifa-local'): any
\* ifa-local of the document that __is_ipv4 accepts
AnyIfaLocal(li) == IsIpv4(li.ifa)

\* the two loops: the address returned and the logical interface it was
\* read from (li 0 and no address when neither loop returns)
WalkDocument(lis) ==
    LET first  == FirstIndex({ i \in 1..Len(lis) : InLo00(lis[i]) })
        second == FirstIndex({ i \in 1..Len(lis) : AnyIfaLocal(lis[i]) })
        li     == IF first # 0 THEN first ELSE second
    IN [li |-> li, val |-> IF li # 0 THEN lis[li].ifa ELSE NoAddress]

CallWalkDocument ==
    /\ cpc = "document"
    /\ cret' = WalkDocument(carg)
    /\ cpc' = "walked"
    /\ UNCHANGED <<carg, nodeVars, poolVars, recvVars, hopVars, probeVars, moreVars>>

NextWalk == CallWalkDocument

-----------------------------------------------------------------------------
(* Initial states and specifications *)

NodeOff ==
    /\ pc = "off" /\ out = << >> /\ client = FALSE /\ conn = "none"
    /\ handler = FALSE /\ loc = InitLoc /\ attempted = {} /\ failed = {}
    /\ faults = 0 /\ clock = 0

PoolOff ==
    /\ mpc = "off" /\ max_workers = 1
    /\ tstate = [n \in Nodes |-> "new"] /\ tout = [n \in Nodes |-> << >>]
    /\ tfail = [n \in Nodes |-> "none"] /\ handlers = {}
    /\ tlog = [n \in Nodes |-> {}] /\ yielded = {} /\ results_per_node = << >>

RecvOff ==
    /\ rpc = "off" /\ rop = "prompt" /\ rreq = FALSE /\ rstream = << >>
    /\ rchan = << >> /\ rbuf = << >> /\ rgot = << >> /\ rret = << >>
    /\ rnow = 0 /\ rend = 0

HopOff ==
    /\ hpc = "off" /\ hdev = [reach |-> FALSE, hostkey |-> FALSE, password |-> FALSE,
                              accept |-> FALSE, delay |-> 0]
    /\ hcur = {} /\ hsent = << >>
    /\ herrors = << >> /\ hnow = 0 /\ hfeed = 0

CallOff == cpc = "off" /\ carg = << >> /\ cret = << >>

ProbeOff ==
    /\ ppc = "off" /\ phosts = 0 /\ pidx = 1 /\ ptried = 0
    /\ pattempts = [h \in Hosts |-> 0] /\ pslept = [h \in Hosts |-> 0]
    /\ pchosen = 0 /\ pnodes = 0

CollectOff ==
    /\ kpc = "off" /\ kworkers = 0 /\ kstate = [n \in Nodes |-> "new"]
    /\ kdone = << >> /\ kwaiter = << >> /\ kbatch = << >> /\ kfirst = {}
    /\ kresults = << >>

SessOff ==
    /\ spc = [n \in Sessions |-> "off"] /\ sret = [n \in Sessions |-> "none"]
    /\ spaging = [cls |-> FALSE, inst |-> {}] /\ sset = {}
    /\ ssent = [n \in Sessions |-> 0] /\ scalls = [n \in Sessions |-> 0]

SaveOff ==
    /\ vpc = "off" /\ vfile = "absent" /\ vsent = << >> /\ vstream = << >>
    /\ vbuf = NoText /\ vsz = 0 /\ vleft = 0 /\ vhow = "none" /\ vret = NoText

MoreOff == CollectOff /\ SessOff /\ SaveOff

ExtOff == HopOff /\ CallOff /\ ProbeOff /\ MoreOff

\* _collect_for_node is entered
InitNode ==
    /\ pc = "start" /\ out = << >> /\ client = FALSE /\ conn = "none"
    /\ handler = FALSE /\ loc = InitLoc /\ attempted = {} /\ failed = {}
    /\ faults = 0 /\ clock = 0
    /\ PoolOff /\ RecvOff /\ ExtOff

\* main reaches `with ThreadPoolExecutor(max_workers=max_workers) as ex`
Init ==
    /\ mpc = "submit" /\ max_workers \in 1..WorkerCap
    /\ tstate = [n \in Nodes |-> "new"] /\ tout = [n \in Nodes |-> << >>]
    /\ tfail = [n \in Nodes |-> "none"] /\ handlers = {}
    /\ tlog = [n \in Nodes |-> {}] /\ yielded = {} /\ results_per_node = << >>
    /\ NodeOff /\ RecvOff /\ ExtOff

\* a session is open and a device is about to answer
InitRecv ==
    /\ rpc = "idle" /\ rop = "prompt" /\ rreq = FALSE /\ rstream \in Scripts
    /\ rchan = << >> /\ rbuf = << >> /\ rgot = << >> /\ rret = << >>
    /\ rnow = 0 /\ rend = 0
    /\ NodeOff /\ PoolOff /\ ExtOff

\* the session on the access host is open and the hop is about to be made
InitHop ==
    /\ hpc = "call" /\ hdev \in Devices /\ hcur = {} /\ hsent = << >>
    /\ herrors = << >> /\ hnow = 0 /\ hfeed = 0
    /\ CallOff /\ ProbeOff /\ NodeOff /\ PoolOff /\ RecvOff /\ MoreOff

\* a capture is about to be repaired
InitRepair ==
    /\ cpc = "capture" /\ carg \in Captures /\ cret = << >>
    /\ HopOff /\ ProbeOff /\ NodeOff /\ PoolOff /\ RecvOff /\ MoreOff

\* a reply to the loopback command is about to be parsed
InitLoopback ==
    /\ cpc = "reply" /\ carg \in LoopbackReplies /\ cret = << >>
    /\ HopOff /\ ProbeOff /\ NodeOff /\ PoolOff /\ RecvOff /\ MoreOff

\* a storage listing of at least one filesystem is about to be parsed
InitStorage ==
    /\ cpc = "listing" /\ carg \in Listings /\ cret = << >>
    /\ HopOff /\ ProbeOff /\ NodeOff /\ PoolOff /\ RecvOff /\ MoreOff

\* the inventory and the version text of a node are at hand
InitPlatform ==
    /\ cpc = "detect"
    /\ carg \in [node : NodeNames, hw_items : Inventories, model_token : ModelTokens]
    /\ cret = << >>
    /\ HopOff /\ ProbeOff /\ NodeOff /\ PoolOff /\ RecvOff /\ MoreOff

\* a physical-interface element of the reply is about to be turned into a record
InitInterfaces ==
    /\ cpc = "phys" /\ carg \in PhysicalInterfaces /\ cret = << >>
    /\ HopOff /\ ProbeOff /\ NodeOff /\ PoolOff /\ RecvOff /\ MoreOff

\* main has read the node list and is about to size the pool
InitWorkers ==
    /\ cpc = "config" /\ carg \in WorkerConfigs /\ cret = << >>
    /\ HopOff /\ ProbeOff /\ NodeOff /\ PoolOff /\ RecvOff /\ MoreOff

\* main is about to read its access file
InitProbe ==
    /\ ppc = "access" /\ phosts \in 0..MaxHosts /\ pidx = 1 /\ ptried = 0
    /\ pattempts = [h \in Hosts |-> 0] /\ pslept = [h \in Hosts |-> 0]
    /\ pchosen = 0 /\ pnodes = 0
    /\ HopOff /\ CallOff /\ NodeOff /\ PoolOff /\ RecvOff /\ MoreOff

InitParsers ==
    /\ NodeOff /\ PoolOff /\ RecvOff /\ HopOff /\ ProbeOff /\ MoreOff
    /\ cpc = "doc" /\ carg \in Documents /\ cret = << >>


\* the two storage replies of a node are about to be parsed
InitReconcile ==
    /\ NodeOff /\ PoolOff /\ RecvOff /\ HopOff /\ ProbeOff /\ MoreOff
    /\ cpc = "storage-replies" /\ cret = << >>
    /\ carg \in [xml : XmlStorageReplies, txt : TextStorageReplies]


\* main is about to submit its node tasks to a pool of kworkers threads
InitCollect ==
    /\ NodeOff /\ PoolOff /\ RecvOff /\ HopOff /\ CallOff /\ ProbeOff /\ SessOff /\ SaveOff
    /\ kpc = "submit" /\ kworkers \in 1..WorkerCap
    /\ kstate = [n \in Nodes |-> "new"]
    /\ kdone = << >> /\ kwaiter = << >> /\ kbatch = << >> /\ kfirst = {}
    /\ kresults = << >>


\* no session exists yet; the class attribute is as the class body leaves it
InitSess ==
    /\ NodeOff /\ PoolOff /\ RecvOff /\ HopOff /\ CallOff /\ ProbeOff /\ CollectOff /\ SaveOff
    /\ spc = [n \in Sessions |-> "none"] /\ sret = [n \in Sessions |-> "none"]
    /\ spaging = [cls |-> FALSE, inst |-> {}] /\ sset = {}
    /\ ssent = [n \in Sessions |-> 0] /\ scalls = [n \in Sessions |-> 0]


\* junos_xml_save_and_read is called; the device may hold a file of an
\* earlier run at tmp_path
InitSave ==
    /\ NodeOff /\ PoolOff /\ RecvOff /\ HopOff /\ CallOff /\ ProbeOff
    /\ CollectOff /\ SessOff
    /\ vpc = "start" /\ vfile \in {"absent", "stale"}
    /\ vsent = << >> /\ vstream = << >> /\ vbuf = NoText /\ vsz = 0
    /\ vleft = 0 /\ vhow = "none" /\ vret = NoText


\* a parsed reply to `show interfaces lo0.0` is about to be walked
InitWalk ==
    /\ NodeOff /\ PoolOff /\ RecvOff /\ HopOff /\ ProbeOff /\ MoreOff
    /\ cpc = "document" /\ carg \in LoopbackDocs /\ cret = << >>


SpecNode == InitNode /\ [][NextNode]_vars
Spec == Init /\ [][NextPool]_vars
SpecRecv == InitRecv /\ [][NextRecv]_vars
SpecHop == InitHop /\ [][NextHop]_vars
SpecRepair == InitRepair /\ [][NextRepair]_vars
SpecLoopback == InitLoopback /\ [][NextLoopback]_vars
SpecStorage == InitStorage /\ [][NextStorage]_vars
SpecPlatform == InitPlatform /\ [][NextPlatform]_vars
SpecInterfaces == InitInterfaces /\ [][NextInterfaces]_vars
SpecWorkers == InitWorkers /\ [][NextWorkers]_vars
SpecProbe == InitProbe /\ [][NextProbe]_vars
SpecParsers == InitParsers /\ [][NextParsers]_vars
SpecReconcile == InitReconcile /\ [][NextReconcile]_vars
SpecCollect == InitCollect /\ [][NextCollect]_vars
SpecSess == InitSess /\ [][NextSess]_vars
SpecSave == InitSave /\ [][NextSave]_vars
SpecWalk == InitWalk /\ [][NextWalk]_vars

-----------------------------------------------------------------------------
(* Properties *)

\* the entries of main's result list that belong to node n
EntriesOf(n) == { i \in DOMAIN results_per_node : results_per_node[i].node = n }

\* C1: once the pool of main has finished, results_per_node holds exactly one
\* entry for every submitted node, whatever happened inside the node's task
\* (a task whose function raises included).
C1_OneResultPerNode ==
    mpc = "done" => \A n \in Nodes : Cardinality(EntriesOf(n)) = 1

\* C2: from its construction on, the dict of _collect_for_node carries every
\* field but elapsed, and the dict it returns carries them all, whichever
\* stages failed (the session open included).
C2_ResultComplete ==
    /\ pc \notin {"off", "start", "raised"} => (ResultFields \ {"elapsed"}) \subseteq DOMAIN out
    /\ pc = "done" =>
         /\ DOMAIN out = ResultFields
         /\ DOMAIN DefaultSystemInfo \subseteq DOMAIN out.system_info

\* a result returned although the session open itself failed
C2_Witness ==
    /\ pc = "done"
    /\ "open" \in failed
    /\ "hop" \notin attempted

\* the stages that follow the session open
StagesAfterOpen ==
    { "hop", "re", "mem", "stgxml", "stgtxt", "stgparse", "stgassign",
      "chassis", "optics", "alarms", "ifaces", "ver", "platform", "loopback" }

\* C3: once the session is open, no failing stage aborts the node: when the
\* task has returned, every stage of the sequence has been attempted.
C3_EveryStageAttempted ==
    (pc = "done" /\ client) => StagesAfterOpen \subseteq attempted

\* the label under which the orchestrator records a failure of the stage (an
\* exception of the unguarded storage parse is recorded by the outer except)
ErrorLabelOf(stage) ==
    CASE stage = "open" -> "open_tacacs_shell"
      [] stage = "hop" -> "connect_to_node"
      [] stage \in {"re", "mem"} -> "re/cpu/mem"
      [] stage = "stgparse" -> "open_tacacs_shell"
      [] stage \in {"stgxml", "stgtxt", "stgassign"} -> "storage-parse"
      [] stage = "chassis" -> "chassis"
      [] stage = "optics" -> "optics"
      [] stage = "alarms" -> "alarms"
      [] stage = "ifaces" -> "interfaces"
      [] stage \in {"ver", "platform"} -> "platform/sw detect"
      [] stage = "loopback" -> "loopback"
      [] OTHER -> "fpc_map"

\* C4: every stage-level failure of a node (a command exchange failing inside
\* junos_xml or junos_run_text included) has an entry in the errors list of
\* the returned result.
C4_FailuresRecorded ==
    pc = "done" =>
      \A s \in failed : \E i \in DOMAIN out.errors : out.errors[i] = ErrorLabelOf(s)

\* C5: whenever an SSH connection to the access host was made for the node,
\* it is closed when the node task ends.
C5_ConnectionClosed ==
    pc = "done" => conn # "open"

\* C6: the number of node tasks in flight never exceeds the worker cap.
C6_InFlightWithinCap ==
    Cardinality(Running) <= max_workers

\* a cap below the number of nodes, all workers busy and a task waiting
C6_Witness ==
    /\ max_workers < NumNodes
    /\ Cardinality(Running) = max_workers
    /\ \E n \in Nodes : tstate[n] = "pending"

\* C7: a failure of a node task is in the error list of that task's own
\* result entry, and the tasks in which nothing failed have all been
\* collected with an empty error list.
C7_FailureInOwnEntryOnly ==
    mpc = "done" =>
      \A n \in Nodes :
        IF tfail[n] # "none"
        THEN \E i \in EntriesOf(n) : results_per_node[i].errors # << >>
        ELSE \E i \in EntriesOf(n) : results_per_node[i].errors = << >>

\* C8: the node tasks share no mutable state: a record logged by the task of
\* one node never reaches the log handler of another node.
C8_LogsStayPerNode ==
    \A h \in Nodes : "other" \notin tlog[h]

PromptAtEnd(b) ==
    \E i \in 1..Len(b) : b[i] \in {">", "}", "%"} /\ AllSpace(b, i + 1, Len(b))

\* what each operation waits for: the prompt, the closing marker, or either
AwaitedSeen(op, req, b) ==
    CASE op = "prompt" -> PromptAtEnd(b)
      [] op = "tag"    -> HasCloseTag(b) /\ (~req \/ PromptAtEnd(b))
      [] OTHER         -> HasCloseTag(b) \/ PromptAtEnd(b)

\* C10: a receive operation returns as soon as the closing marker or a device
\* prompt has been received: it is never still waiting with that in its buffer.
C10_ReturnsOnPrompt ==
    rpc = "loop" => ~AwaitedSeen(rop, rreq, rbuf)

\* the lines sent on the session during the hop
HopSent(line) == \E i \in DOMAIN hsent : hsent[i] = line

\* C11: when the hop command was sent and connect_to_node is over, a host-key
\* question and a password prompt that were received have been answered, the
\* waits were bounded, and when the far end never showed the login prompt of
\* the device the failure is in the node's errors list (no exception leaves
\* the stage: the caller's except clause records it).
C11_HopAnswersAndRecords ==
    (hpc = "done" /\ HopSent("ssh")) =>
      /\ AsksYesNo(hcur) => HopSent("yes")
      /\ AsksPassword(hcur) => HopSent("pass")
      /\ hnow <= HopFirstWait + HopFeedWait + HopPollWait + HopYesWait + HopPasswordWait
      /\ "login" \notin Arrived(hdev, hsent, hnow)
            => \E i \in DOMAIN herrors : herrors[i] = "connect_to_node"

\* a capture with the opening <rpc-reply marker
HasOpenMarker(x) == Find(x, {"<R"}) # 0
HasCloseMarker(x) == Find(x, {"R>"}) # 0

\* C12: for a capture that holds the opening <rpc-reply marker and not the
\* closing one, what the repair returns parses as a well-formed document
\* with one top-level element.
C12_RepairedParses ==
    (cpc \in {"extracted", "sanitized"} /\ HasOpenMarker(carg) /\ ~HasCloseMarker(carg))
      => (~cret.exc /\ WellFormed(cret.val))

\* C13: the repair never raises and always returns a string, whatever the
\* capture.
C13_RepairNeverRaises ==
    cpc \in {"extracted", "sanitized"} =>
      /\ ~cret.exc
      /\ cret.val \in Seq(Pieces \cup {"SP", "<root", "root>"})

\* a capture that stays unparsable after every attempt, returned by
\* sanitize_xml_text, which has no try of its own
C13_Witness ==
    /\ cpc = "sanitized"
    /\ cret.val # << >>
    /\ ~WellFormed(cret.val)
    /\ ~WellFormed(Rooted(cret.val))

\* C14: a candidate with an octet outside [0,255], or that is not exactly
\* four numeric parts, is never returned as the loopback address, whichever
\* path found it: the reply that holds only such a candidate yields '-'.
C14_InvalidCandidateRejected ==
    (cpc = "loopback" /\ ~IsIpv4(carg.parts)) => cret = NoAddress

\* a var-like mount point: /var, or /var under /.mount
VarLike(mount) == mount \in {"/var", "/.mount/var"}

\* C15: both storage paths choose a filesystem mounted on a var-like mount
\* point when the listing has one (the /var entry, not a larger /), and only
\* otherwise a filesystem of the largest total size.
C15_VarMountPreferred ==
    cpc \in {"xml-chosen", "text-chosen"} =>
      LET picked == { i \in DOMAIN carg : carg[i].total = cret.total_mb }
      IN IF \E i \in DOMAIN carg : VarLike(carg[i].mount)
         THEN \E i \in picked : VarLike(carg[i].mount)
         ELSE \A j \in DOMAIN carg : carg[j].total <= cret.total_mb

\* the platforms one of whose tags is in the text of hardware record i
TaggedPlatforms(items, i) ==
    { PlatformOrder[k] : k \in { j \in DOMAIN PlatformOrder :
                                   PlatformTags(PlatformOrder[j]) \cap items[i] # {} } }
HasHardwareTag(items) == \E i \in DOMAIN items : TaggedPlatforms(items, i) # {}

\* C16: a hardware record with a known tag decides the platform whatever the
\* Model: token and the node identifier say; the Model: token counts only
\* without a hardware tag, the node identifier only when both fail, and
\* 'Unknown' only when all three fail.
C16_PlatformLayersInOrder ==
    cpc = "detected" =>
      IF HasHardwareTag(carg.hw_items)
      THEN \E i \in DOMAIN carg.hw_items : cret \in TaggedPlatforms(carg.hw_items, i)
      ELSE IF ModelLayer(carg.model_token) # NoPlatform
      THEN cret = ModelLayer(carg.model_token)
      ELSE IF HostnameLayer(carg.node) # NoPlatform
      THEN cret = HostnameLayer(carg.node)
      ELSE cret = "Unknown"

\* a tagged hardware record decides against a Model: token and a node
\* identifier that both name another platform
C16_Witness ==
    /\ cpc = "detected"
    /\ cret = "PTX10004"
    /\ carg.model_token = "MX480"
    /\ carg.node = "pe-mx240-1"

\* the capacity bit-rate of a class, in units of 10^8 bit/s (0: unrecognized)
ClassBitRate(class) ==
    IF class = "100Gbps" THEN 1000
    ELSE IF class = "10Gbps" THEN 100
    ELSE IF class = "1Gbps" THEN 10 ELSE 0

FormulaWorkers(c) ==
    LET cores == IF c.cpu_count = None THEN 4 ELSE c.cpu_count[1]
        m     == { c.node_count, cores * c.io_factor, c.hard_cap }
    IN CHOOSE x \in m : \A y \in m : x <= y

\* C18 (as stated): the worker count is the explicit override when one is
\* provided, and otherwise min(number of nodes, cores x ioFactor, hardCap).
C18_WorkerCountAsStated ==
    cpc = "workers" =>
      IF carg.override.text # "unset"
      THEN cret = carg.override.n
      ELSE cret = FormulaWorkers(carg)

\* C18 (amended): the worker count is the override raised to at least 1 when
\* the override is a text of digits; without such an override (none, or a
\* text that is not all digits) it is min(number of nodes, cores x ioFactor,
\* hardCap).
C18_WorkerCountAmended ==
    cpc = "workers" =>
      IF carg.override.text = "digits"
      THEN /\ cret >= 1
           /\ cret >= carg.override.n
           /\ cret \in {1, carg.override.n}
      ELSE cret = FormulaWorkers(carg)

\* an override of 0 gives one worker
C18_Witness ==
    /\ cpc = "workers"
    /\ carg.override = [text |-> "digits", n |-> 0]
    /\ cret = 1

\* the probe of access host h is over
ProbedOut(h) == pattempts[h] = INITIAL_TEST_RETRIES + 1 /\ pchosen # h
ProbeOver(h) == pchosen = h \/ pidx > h \/ (pidx = h /\ ppc = "after")

\* the probe itself: at most one attempt and INITIAL_TEST_RETRIES retries
\* per access host, the same delay between two attempts on a host, the first
\* host that accepts is chosen and no later host is probed
ProbeBoundedAndFirstWins ==
    /\ \A h \in Hosts :
         /\ pattempts[h] <= INITIAL_TEST_RETRIES + 1
         /\ (ProbeOver(h) /\ pattempts[h] > 0)
              => pslept[h] = INITIAL_TEST_RETRY_DELAY * (pattempts[h] - 1)
    /\ pchosen # 0 =>
         /\ \A h \in Hosts : h < pchosen => ProbedOut(h)
         /\ \A h \in Hosts : h > pchosen => pattempts[h] = 0

\* C19 (as stated): the probe is bounded with a fixed delay, the first host
\* that accepts is chosen and no further host is probed, and the run ends
\* fatally only when the probe is exhausted on every access host, before any
\* node task is submitted.
C19_ProbeSoleFatalAsStated ==
    /\ ProbeBoundedAndFirstWins
    /\ ppc \in {"exit1", "exit2", "crash"} =>
         (pchosen = 0 /\ \A h \in 1..phosts : ProbedOut(h))

\* C19 (amended): the probe is bounded with a fixed delay, the first host
\* that accepts is chosen and no further host is probed; when the probe is
\* exhausted on every access host the run ends fatally (exit status 2)
\* before any node task is submitted, and only then with that status.  The
\* run also ends fatally, before any node task is submitted, when the access
\* file, the workbook or the node list cannot be loaded (exit status 1) and
\* when the pool cannot be created.
C19_ProbeFatalAmended ==
    /\ ProbeBoundedAndFirstWins
    /\ ppc = "exit2" => (pchosen = 0 /\ \A h \in 1..phosts : ProbedOut(h))
    /\ ppc \in {"workbook", "nodelist", "pool", "submit", "crash"} => pchosen # 0
    /\ (ppc \in {"chosen?", "exit2"} /\ pchosen = 0) => \A h \in 1..phosts : ProbedOut(h)

\* every access host was tried to the end and the run is over
C19_Witness ==
    /\ ppc = "exit2"
    /\ phosts = MaxHosts
    /\ \A h \in Hosts : pattempts[h] = INITIAL_TEST_RETRIES + 1

\* the storage stage got no filesystem from either path
NoFilesystem(chosen) ==
    /\ chosen.total_mb = None /\ chosen.used_mb = None
    /\ chosen.free_mb = None /\ chosen.util_percent = None

\* C20: a field of system_info keeps its pre-populated default until the
\* stage that produces it has obtained a value: temperature and CPU without
\* a value in the routing-engine text, the four storage fields when neither
\* storage path yields a filesystem, and the version without a version token
\* in the show version text, are still at their defaults.
C20_DefaultsKeptWithoutValue ==
    pc \notin {"off", "start"} =>
      LET si == out.system_info
          d  == DefaultSystemInfo
      IN /\ ParseTemperatureFromRe(loc.re_txt) = None => si.temperature = d.temperature
         /\ ParseCpuUsedFromRe(loc.re_txt) = None => si.cpu_usage = d.cpu_usage
         /\ NoFilesystem(loc.chosen) =>
               /\ si.total_space = d.total_space /\ si.used_space = d.used_space
               /\ si.free_space = d.free_space /\ si.disk_util = d.disk_util
         /\ ExtractRawVersion(loc.show_ver) = "" => si.current_sw = d.current_sw


\* C21: no structured parser raises, and a parser in which an internal
\* failure occurred returns an empty list, whatever it had extracted before
\* the failure.
C21_ParsersEmptyOnFailure ==
    cpc \in {"interfaces", "alarms", "hardware"} =>
        /\ ~cret.raised
        /\ cret.failed => cret.val = << >>


\* the four numeric fields were all present in the structured reply
AllFourPresent(reply) ==
    reply.kind = "fs" /\ reply.total # "" /\ reply.used # ""
                      /\ reply.avail # "" /\ reply.perc # ""

\* C22: the structured storage result is used only if the structured reply
\* held all four numeric fields of the chosen filesystem; in every other
\* case, a filesystem entry lacking a field included, the text result is used.
C22_StructuredOnlyWhenComplete ==
    cpc \in {"reconciled", "assigned"} =>
        cret.chosen = IF AllFourPresent(carg.xml) THEN cret.st_xml ELSE cret.st_txt


\* the results are in the order in which their tasks completed
InCompletionOrder(results) ==
    \A i, j \in 1..Len(results) :
        i < j => Pos(kdone, results[i]) < Pos(kdone, results[j])

\* C23 as stated: the results are appended to results_per_node in the order
\* in which the node tasks complete.
C23_CompletionOrderAsStated == InCompletionOrder(kresults)

\* C23 amended: the results of the tasks that complete after the loop over
\* as_completed began are appended in the order in which those tasks
\* complete, whatever the order of submission; the results of the tasks
\* already complete at that moment come before them; and when the loop ends
\* the list holds the result of every task that returned, once each.
C23_CompletionOrderAmended ==
    /\ \A i, j \in 1..Len(kresults) :
         i < j =>
           /\ kresults[j] \in kfirst => kresults[i] \in kfirst
           /\ (kresults[i] \notin kfirst /\ kresults[j] \notin kfirst)
                => Pos(kdone, kresults[i]) < Pos(kdone, kresults[j])
    /\ \A i, j \in 1..Len(kresults) : kresults[i] = kresults[j] => i = j
    /\ kpc = "done" => Range(kresults) = { n \in Nodes : kstate[n] = "returned" }

\* two tasks that completed after the loop began, the later submitted first,
\* and their results in that order
C23_Witness ==
    /\ kpc = "done"
    /\ \E i, j \in 1..Len(kresults) :
         /\ i < j /\ kresults[i] > kresults[j]
         /\ kresults[i] \notin kfirst /\ kresults[j] \notin kfirst


\* C24: on one session the no-paging command is sent at most once, whatever
\* helpers are run on it.
C24_NoPagingSentOnce == \A n \in Sessions : ssent[n] <= 1

\* C25: a session appears paging-disabled exactly when ensure_no_paging has
\* set the flag on that very session: setting it on one session does not
\* show on another session, existing or created later, and a flag once set
\* stays set.
C25_FlagPerSession == \A n \in Sessions : PagingDisabled(n) <=> n \in sset

\* the flag is set on one session while another session, with no call made
\* on it yet, does not appear paging-disabled
C25_Witness ==
    \E n, m \in Sessions :
        /\ n \in sset /\ PagingDisabled(n)
        /\ spc[m] = "idle" /\ scalls[m] = 0 /\ ~PagingDisabled(m)

\* the stages of a node task in the order of the code; the session is
\* closed after the last of them
StageOrder ==
    << "open", "hop", "re", "mem", "stgxml", "stgtxt", "stgparse", "stgassign",
       "chassis", "optics", "alarms", "ifaces", "ver", "platform", "loopback",
       "fpcmap" >>

\* the stages entered so far are the first k of the order
EnteredPrefix(k) == attempted = { StageOrder[i] : i \in 1..k }

\* C26: a node task enters its stages one at a time in the fixed order (open
\* session, hop, routing engine, memory, storage XML then text, hardware,
\* optics, alarms, interfaces, version and platform, loopback, slot-to-model
\* lookup), each after the one before it has ended, and closes the session
\* after them; platform detection works on the hardware list the hardware
\* stage of the same task left in the task's result.
C26_StagesInFixedOrder ==
    /\ [](\E k \in 0..Len(StageOrder) : EnteredPrefix(k))
    /\ [](conn = "closed" => pc \in {"ret", "done"})
    /\ []("platform" \in attempted =>
            /\ "chassis" \in attempted
            /\ out.system_info.platform = DetectPlatform(out.hardware_items, loc.show_ver))
    /\ [][Cardinality(attempted') <= Cardinality(attempted) + 1]_vars

\* a task that ran every stage, closed its session, and detected its
\* platform from the hardware list of its chassis reply
C26_Witness ==
    /\ pc = "done" /\ EnteredPrefix(Len(StageOrder)) /\ conn = "closed"
    /\ out.hardware_items # << >> /\ out.system_info.platform = "MX960"


\* C27: the command that persists the reply to a file on the device is sent
\* before any read-back command; a read-back loop ends on the closing
\* marker, or on the probed size being reached by the payload, or on its
\* timeout; and after a timeout the partial buffer is repaired and returned.
C27_SaveThenBoundedRead ==
    /\ \A i \in 1..Len(vsent) :
         vsent[i] = "file show" => \E j \in 1..(i - 1) : Persists(vsent[j])
    /\ vhow = "marker" => vbuf.close
    /\ vhow = "size" => SizeReached(vbuf, vsz)
    /\ (vpc = "returned" /\ vhow = "timeout") => vret = SanitizeBuf(vbuf)

\* C28: the worker count handed to the pool is at least 1 for every
\* configuration main accepts, an empty node list and a hard cap or I/O
\* factor of 0 included.
C28_WorkerCountAtLeastOne == cpc = "workers" => cret >= 1


\* C29: an address returned by the structured walk is an ifa-local of an
\* inet family of the logical interface lo0.0; the address of another
\* logical interface of the reply is never returned.
C29_WalkReturnsLo00Only ==
    (cpc = "walked" /\ cret.val # NoAddress) =>
        (IsLo00(carg[cret.li].name) /\ InetFamily(carg[cret.li].afn))

\* C30: the 'chosen' line of the result of _parse_storage_text is the line
\* the returned figures were taken from, for every order of the lines, a
\* preferred-mount line followed by a line of larger total size included.
C30_ChosenLineIsPickedLine ==
    cpc = "text-chosen" =>
        \E i \in DOMAIN carg :
            carg[i].mount = cret.chosen /\ carg[i].total = cret.total_mb

=============================================================================
